---------------------------- MODULE Spec2Model ----------------------------
(***************************************************************************)
(* A model of the two notebooks of src/ProjectTransfer.ipynb: the transfer *)
(* function approximation (TF_exact, MatrixModel, TFROM) and the building  *)
(* of the IRKA projection matrices (MatrixModel, MatrixReductor,           *)
(* ProjectionMatrices, Gram, exact).                                       *)
(*                                                                         *)
(* Numbers are exact Gaussian rationals (a + b*i)/d, kept as the triple    *)
(* <<a, b, d>> in lowest terms with d > 0.  The triple with d = 0 stands   *)
(* for a non-finite floating point value (inf or nan): it is what a        *)
(* division by zero gives and every operation propagates it.  Floating     *)
(* point rounding is not modelled: an identity that holds here holds in    *)
(* the code up to rounding.                                                *)
(*                                                                         *)
(* A numpy 2-D array is the sequence of its rows.  A pyMOR VectorArray is  *)
(* the sequence of its vectors, which is also what to_numpy() returns.     *)
(***************************************************************************)
EXTENDS Integers, Sequences, FiniteSets, TLC

-----------------------------------------------------------------------------
(* Scalars                                                                  *)

Abs(x) == IF x < 0 THEN -x ELSE x

RECURSIVE Gcd(_, _)
Gcd(a, b) == IF b = 0 THEN a ELSE Gcd(b, a % b)

NaN == <<0, 0, 0>>

Mk(a, b, d) ==
    IF d = 0 THEN NaN
    ELSE LET g == Gcd(Gcd(Abs(a), Abs(b)), Abs(d))
             s == IF d < 0 THEN -1 ELSE 1
         IN  <<(s * a) \div g, (s * b) \div g, (s * d) \div g>>

Zero == <<0, 0, 1>>
One == <<1, 0, 1>>
Re(k) == <<k, 0, 1>>
Cplx(re, im) == <<re, im, 1>>

IsFinite(x) == x[3] # 0
IsReal(x) == x[3] # 0 /\ x[2] = 0

\* sums and products cancel common factors before they multiply, which keeps
\* the intermediate integers small
CAdd(x, y) ==
    IF x[3] = 0 \/ y[3] = 0 THEN NaN
    ELSE LET g  == Gcd(x[3], y[3])
             fx == y[3] \div g
             fy == x[3] \div g
         IN  Mk(x[1] * fx + y[1] * fy, x[2] * fx + y[2] * fy, x[3] * fx)
CNeg(x) == <<-x[1], -x[2], x[3]>>
CSub(x, y) == CAdd(x, CNeg(y))
CMul(x, y) ==
    IF x[3] = 0 \/ y[3] = 0 THEN NaN
    ELSE LET gx == Gcd(Gcd(Abs(x[1]), Abs(x[2])), y[3])
             gy == Gcd(Gcd(Abs(y[1]), Abs(y[2])), x[3])
             a1 == x[1] \div gx
             b1 == x[2] \div gx
             a2 == y[1] \div gy
             b2 == y[2] \div gy
         IN  Mk(a1 * a2 - b1 * b2, a1 * b2 + b1 * a2, (x[3] \div gy) * (y[3] \div gx))
CConj(x) == <<x[1], -x[2], x[3]>>
\* 1/x; 1/0 is non-finite
CInv(x) ==
    LET m == x[1] * x[1] + x[2] * x[2]
        g == Gcd(x[3], m)
    IN  IF m = 0 \/ x[3] = 0 THEN NaN
        ELSE Mk((x[3] \div g) * x[1], -((x[3] \div g) * x[2]), m \div g)
CDiv(x, y) == IF IsFinite(x) THEN CMul(x, CInv(y)) ELSE NaN
\* |x|^2, a real number
CAbs2(x) == Mk(x[1] * x[1] + x[2] * x[2], 0, x[3] * x[3])
\* order of two finite real numbers
RLeq(x, y) == x[1] * (y[3] \div Gcd(x[3], y[3])) <= y[1] * (x[3] \div Gcd(x[3], y[3]))
RLt(x, y) == ~RLeq(y, x)

\* the least k in lo..hi with k * k >= n, by bisection
RECURSIVE ISqrtIn(_, _, _)
ISqrtIn(n, lo, hi) ==
    IF lo >= hi THEN lo
    ELSE LET mid == (lo + hi) \div 2
         IN  IF mid * mid >= n THEN ISqrtIn(n, lo, mid) ELSE ISqrtIn(n, mid + 1, hi)
ISqrt(n) == ISqrtIn(n, 0, IF n < 46340 THEN n ELSE 46340)
IsSquare(n) == n >= 0 /\ ISqrt(n) * ISqrt(n) = n
\* the square root of a real number >= 0, where it is rational
HasSqrt(x) == IsReal(x) /\ IsSquare(x[1]) /\ IsSquare(x[3])
Sqrt(x) == <<ISqrt(x[1]), 0, ISqrt(x[3])>>

-----------------------------------------------------------------------------
(* Vectors and matrices                                                     *)

RECURSIVE SumSeq(_)
SumSeq(s) == IF s = <<>> THEN Zero ELSE CAdd(s[1], SumSeq(Tail(s)))

\* numpy: x @ y for two vectors (no conjugation)
Dot(x, y) == SumSeq([k \in 1..Len(x) |-> CMul(x[k], y[k])])
\* pyMOR: U.inner(V), antilinear in the first argument
Inner(x, y) == SumSeq([k \in 1..Len(x) |-> CMul(CConj(x[k]), y[k])])
Norm2(x) == Inner(x, x)
Scal(a, x) == [k \in 1..Len(x) |-> CMul(a, x[k])]
VAdd(x, y) == [k \in 1..Len(x) |-> CAdd(x[k], y[k])]
VSub(x, y) == [k \in 1..Len(x) |-> CSub(x[k], y[k])]
VecFinite(x) == \A k \in 1..Len(x) : IsFinite(x[k])

NRows(M) == Len(M)
NCols(M) == IF M = <<>> THEN 0 ELSE Len(M[1])
Shape(M) == <<NRows(M), NCols(M)>>
Col(M, j) == [i \in 1..Len(M) |-> M[i][j]]
\* M.T
Transpose(M) == [j \in 1..NCols(M) |-> Col(M, j)]
Conj(M) == [i \in 1..Len(M) |-> [j \in 1..Len(M[i]) |-> CConj(M[i][j])]]
\* M.T.conj()
Adjoint(M) == Conj(Transpose(M))
MatMul(X, Y) == [i \in 1..Len(X) |-> [j \in 1..NCols(Y) |-> Dot(X[i], Col(Y, j))]]
MatVec(M, x) == [i \in 1..Len(M) |-> Dot(M[i], x)]
MatSub(X, Y) == [i \in 1..Len(X) |-> VSub(X[i], Y[i])]
MatScal(a, M) == [i \in 1..Len(M) |-> Scal(a, M[i])]
\* np.eye(n)
Eye(n) == [i \in 1..n |-> [j \in 1..n |-> IF i = j THEN One ELSE Zero]]
\* np.diag(v) of a 1-D array
Diag(v) == [i \in 1..Len(v) |-> [j \in 1..Len(v) |-> IF i = j THEN v[i] ELSE Zero]]
MatFinite(M) == \A i \in 1..Len(M) : VecFinite(M[i])

DropAt(s, k) == [i \in 1..(Len(s) - 1) |-> IF i < k THEN s[i] ELSE s[i + 1]]
Minor(M, r, c) == [i \in 1..(Len(M) - 1) |-> DropAt(DropAt(M, r)[i], c)]

RECURSIVE Det(_)
Det(M) ==
    IF Len(M) = 0 THEN One
    ELSE IF Len(M) = 1 THEN M[1][1]
    ELSE SumSeq([j \in 1..Len(M) |->
             CMul(IF j % 2 = 1 THEN M[1][j] ELSE CNeg(M[1][j]), Det(Minor(M, 1, j)))])

Cofactor(M, i, j) ==
    IF (i + j) % 2 = 0 THEN Det(Minor(M, i, j)) ELSE CNeg(Det(Minor(M, i, j)))

\* fault variant of IsSingular: looks at the first pivot only
IsSingular_FirstPivot(M) == M[1][1] = Zero

IsSingular(M) == Det(M) = Zero

\* the inverse by the adjugate; every entry is non-finite when det = 0
Inverse(M) ==
    LET d == Det(M)
    IN  [i \in 1..Len(M) |-> [j \in 1..Len(M) |-> CDiv(Cofactor(M, j, i), d)]]

-----------------------------------------------------------------------------
(* Bounds of the model                                                      *)

\* the largest number of snapshots (TFROM's snap, len(training_set))
MaxSnap == 2
\* the largest reduced order asked for (rorder, reduced_order_V/W)
MaxOrder == 3
\* the largest number of interpolation points (len(mu))
MaxPoints == 2

-----------------------------------------------------------------------------
(* The systems (A, B, C): A is n x n, B is n x 1, C is 1 x n                *)

\* the systems the first notebook is run on
TransferSystems ==
    { [A |-> <<<<Re(2)>>>>, B |-> <<<<Re(1)>>>>, C |-> <<<<Re(3)>>>>],
      [A |-> <<<<Re(1), Re(0)>>, <<Re(0), Re(6)>>>>,
       B |-> <<<<Re(1)>>, <<Re(1)>>>>, C |-> <<<<Re(1), Re(2)>>>>],
      [A |-> <<<<Re(1), Re(0)>>, <<Re(0), Re(3)>>>>,
       B |-> <<<<Re(1)>>, <<Re(0)>>>>, C |-> <<<<Cplx(0, 2), Re(0)>>>>] }

\* the systems the second notebook is run on
ProjectionSystems ==
    { [A |-> <<<<Re(2)>>>>, B |-> <<<<Re(1)>>>>, C |-> <<<<Re(3)>>>>],
      [A |-> <<<<Re(1), Re(0)>>, <<Re(0), Re(6)>>>>,
       B |-> <<<<Re(1)>>, <<Re(1)>>>>, C |-> <<<<Re(1), Re(2)>>>>],
      [A |-> <<<<Re(0), Re(1)>>, <<Re(1), Re(0)>>>>,
       B |-> <<<<Re(0)>>, <<Re(1)>>>>, C |-> <<<<Re(1), Re(0)>>>>],
      [A |-> <<<<Re(1), Re(0)>>, <<Re(0), Re(3)>>>>,
       B |-> <<<<Re(1)>>, <<Re(0)>>>>, C |-> <<<<Cplx(0, 2), Re(0)>>>>] }

\* how the caller holds A, B, C: numpy.ndarray or NumpyMatrixOperator
Kinds == {"ndarray", "operator"}

-----------------------------------------------------------------------------
(* pyMOR models.  A StationaryModel with operator                           *)
(*   LincombOperator([I, A], [s or conj(s), -1])                            *)
(* is the record [I, A, conj, rhs, out]; RB is the basis its reductor       *)
(* keeps (empty for a full order model).                                    *)

NoModel == [I |-> <<>>, A |-> <<>>, conj |-> FALSE, rhs |-> <<>>, out |-> <<>>, RB |-> <<>>]

\* first notebook: MatrixModel(A, B, C), identical for both kinds of input
MatrixModel(A, B, C) ==
    [I |-> Eye(Len(A)), A |-> A, conj |-> FALSE,
     rhs |-> Col(B, 1), out |-> C[1], RB |-> <<>>]

\* fault variant of OperatorAt: coeff * I + A
OperatorAt_SignSlip(m, s) ==
    MatSub(MatScal(IF m.conj THEN CConj(s) ELSE s, m.I), MatScal(Re(-1), m.A))

\* the assembled operator at parameter s: coeff * I - A
OperatorAt(m, s) == MatSub(MatScal(IF m.conj THEN CConj(s) ELSE s, m.I), m.A)

\* model.solve(s): the LU solve; every entry is non-finite when the operator
\* is exactly singular
Solve(m, s) == MatVec(Inverse(OperatorAt(m, s)), m.rhs)

\* model.output(s) = output_functional applied to the solution
Output(m, s) == Dot(m.out, Solve(m, s))

\* TF_exact(A, B, C, s), a 1 x 1 array; np.linalg.inv raises LinAlgError
\* when s*I - A is singular
TF_exact(A, B, C, s) ==
    MatMul(MatMul(C, Inverse(MatSub(MatScal(s, Eye(Len(A))), A))), B)
TF_exact_raises(A, s) == IsSingular(MatSub(MatScal(s, Eye(Len(A))), A))

\* LincombOperator([I_op, A_op], ...) asserts that its operators share source
\* and range: I_op is dim x dim with dim = A.shape[0]
LincombAsserts(A) == NCols(A) # NRows(A)
\* StationaryModel asserts rhs.range == operator.range and rhs.source.is_scalar
RhsAsserts(A, rhs) == NRows(rhs) # NRows(A) \/ NCols(rhs) # 1
\* StationaryModel asserts output_functional.source == operator.source
OutputAsserts(A, C) == NCols(C) # NRows(A)
\* first notebook: MatrixModel(A, B, C) ends with AssertionError
MatrixModelRaises(A, B, C) ==
    LincombAsserts(A) \/ RhsAsserts(A, B) \/ OutputAsserts(A, C)

-----------------------------------------------------------------------------
(* Singular value decomposition and POD                                     *)

\* The orthonormal matrices the model can name (rational entries).  The SVD
\* of a snapshot matrix is taken when one of them is its factor U.
Unitaries(n) ==
    IF n = 1 THEN { <<<<One>>>>, <<<<Re(-1)>>>> }
    ELSE IF n = 2 THEN
        { <<<<One, Zero>>, <<Zero, One>>>>,
          <<<<Zero, One>>, <<One, Zero>>>>,
          <<<< <<3, 0, 5>>, <<-4, 0, 5>> >>, << <<4, 0, 5>>, <<3, 0, 5>> >>>>,
          <<<< <<-4, 0, 5>>, <<3, 0, 5>> >>, << <<3, 0, 5>>, <<4, 0, 5>> >>>> }
    ELSE {}

IsDiagonal(D) == \A i, j \in 1..Len(D) : i # j => D[i][j] = Zero
IsNonIncreasing(d) == \A i \in 1..(Len(d) - 1) : RLeq(d[i + 1], d[i])
DiagOf(D) == [i \in 1..Len(D) |-> D[i][i]]

\* U^H (X X^H) U
Diagonalized(U, X) == MatMul(MatMul(Adjoint(U), MatMul(X, Adjoint(X))), U)

\* U, D, Vt = np.linalg.svd(X, full_matrices = True): U is n x n with
\* orthonormal columns, X X^H = U diag(D^2) U^H, D non-increasing
IsSvdU(U, X) ==
    /\ MatMul(Adjoint(U), U) = Eye(Len(U))
    /\ IsDiagonal(Diagonalized(U, X))
    /\ IsNonIncreasing(DiagOf(Diagonalized(U, X)))

Min(a, b) == IF a <= b THEN a ELSE b
RMax(x, y) == IF RLeq(x, y) THEN y ELSE x

\* the squared singular values D**2 (min(n, count) of them)
SigmaSq(U, X) == SubSeq(DiagOf(Diagonalized(U, X)), 1, Min(NRows(X), NCols(X)))

\* np.linalg.svd raises LinAlgError, scipy's eigh ValueError, on a
\* non-finite entry
SvdRaises(X) == ~MatFinite(X)

\* number of leading entries of d that satisfy P
RECURSIVE CountWhile(_, _, _)
CountWhile(d, tol2, k) ==
    IF k > Len(d) THEN Len(d)
    ELSE IF d[k] # Zero /\ RLeq(tol2, d[k]) THEN CountWhile(d, tol2, k + 1)
    ELSE k - 1

\* The number of modes pyMOR's pod keeps (method of snapshots, l2_err = 0):
\* the eigenvalues at least max(rtol^2 * largest, atol^2) whose tail is not
\* zero, at most `modes` of them when modes is given, at most the dimension.
\* modes is <<>> for None and <<k>> for k.
PodModes(d, modes, atol, rtol) ==
    LET tol2 == RMax(CMul(CMul(rtol, rtol), d[1]), CMul(atol, atol))
        sel  == CountWhile(d, tol2, 1)
    IN  IF modes = <<>> THEN sel ELSE Min(sel, modes[1])

\* pod's `assert modes is None or modes <= len(A)`
PodAsserts(snapshots, modes) == modes # <<>> /\ modes[1] > Len(snapshots)

\* fault variant of FirstColumns: the last k columns, U[:, -k:].T
FirstColumns_Last(U, k) == [j \in 1..k |-> Col(U, NCols(U) - k + j)]
\* the first k columns of U as a VectorArray: U[:, :k].T
FirstColumns(U, k) == [j \in 1..k |-> Col(U, j)]

\* pod_basis, _ = pod(snapshots, modes, atol, rtol) for the SVD factor U
Pod(snapshots, modes, atol, rtol, U) ==
    FirstColumns(U, PodModes(SigmaSq(U, Transpose(snapshots)), modes, atol, rtol))

-----------------------------------------------------------------------------
(* The energy criterion                                                     *)

\* D**2
Squares(d) == [k \in 1..Len(d) |-> CMul(d[k], d[k])]

\* cumulative_energy = np.cumsum(D**2) / np.sum(D**2); 0/0 is nan
CumulativeEnergy(d) ==
    [k \in 1..Len(d) |-> CDiv(SumSeq(SubSeq(Squares(d), 1, k)), SumSeq(Squares(d)))]

\* cumulative_energy >= threshold, elementwise; a comparison with nan is False
AtLeast(energy, fraction) ==
    [k \in 1..Len(energy) |-> IsFinite(energy[k]) /\ RLeq(fraction, energy[k])]

\* np.argmax of a boolean array: the 0-based index of the first True, 0 when
\* no entry is True
Argmax(mask) ==
    IF \E k \in 1..Len(mask) : mask[k]
    THEN (CHOOSE k \in 1..Len(mask) : mask[k] /\ \A j \in 1..(k - 1) : ~mask[j]) - 1
    ELSE 0

\* fault variant of EnergyModes: the 0-based index is taken for the count
EnergyModes_ZeroBased(d, fraction) == Argmax(AtLeast(CumulativeEnergy(d), fraction))
\* m = np.argmax(cumulative_energy >= threshold) + 1
EnergyModes(d, fraction) == Argmax(AtLeast(CumulativeEnergy(d), fraction)) + 1

-----------------------------------------------------------------------------
(* Galerkin projection                                                      *)

\* StationaryRBReductor(model, RB).reduce(): every operator of the model is
\* projected with apply2(RB, RB) = RB^H op RB, the right hand side with
\* RB^H rhs and the output functional with out RB
Reduce(m, RB) ==
    LET k == Len(RB)
    IN  [I    |-> [i \in 1..k |-> [j \in 1..k |-> Inner(RB[i], MatVec(m.I, RB[j]))]],
         A    |-> [i \in 1..k |-> [j \in 1..k |-> Inner(RB[i], MatVec(m.A, RB[j]))]],
         conj |-> m.conj,
         rhs  |-> [i \in 1..k |-> Inner(RB[i], m.rhs)],
         out  |-> IF m.out = <<>> THEN <<>> ELSE [j \in 1..k |-> Dot(m.out, RB[j])],
         RB   |-> RB]

\* reductor.reconstruct(z) = RB.lincomb(z), a vector of dimension n
Reconstruct(RB, z, n) ==
    [i \in 1..n |-> SumSeq([j \in 1..Len(RB) |-> CMul(z[j], RB[j][i])])]

-----------------------------------------------------------------------------
(* numpy's process-global random generator                                  *)

\* The generator's state is one of 8 values and steps as a full-period
\* linear congruential generator; random_sample() is state / 8 in [0, 1).
NextState(st) == (5 * st + 3) % 8

RECURSIVE StateAfter(_, _)
StateAfter(st, k) == IF k = 0 THEN st ELSE StateAfter(NextState(st), k - 1)

\* fault variant of Uniform: (high - low) * random_sample(), the offset dropped
Uniform_NoOffset(low, high, size, st) ==
    [k \in 1..size |-> Mk((high - low) * StateAfter(st, k), 0, 8)]

\* np.random.uniform(low, high, size = (size,)) from state st:
\* low + (high - low) * random_sample(), one step of the generator each
Uniform(low, high, size, st) ==
    [k \in 1..size |-> Mk(low * 8 + (high - low) * StateAfter(st, k), 0, 8)]

-----------------------------------------------------------------------------
(* Second notebook: the primal and the adjoint model                        *)

\* C_op: NumpyMatrixOperator(C.T) for an array, C.H for an operator
AdjointRhs(C, kind) == IF kind = "ndarray" THEN Transpose(C) ELSE Adjoint(C)

\* model_V of MatrixModel(A, B, C): operator s*I - A, rhs B
MatrixModel_V(A, B, C) ==
    [I |-> Eye(Len(A)), A |-> A, conj |-> FALSE,
     rhs |-> Col(B, 1), out |-> <<>>, RB |-> <<>>]

\* model_W of MatrixModel(A, B, C): operator conj(s)*I - A.H, rhs C_op
MatrixModel_W(A, B, C, kind) ==
    [I |-> Eye(Len(A)), A |-> Adjoint(A), conj |-> TRUE,
     rhs |-> Col(AdjointRhs(C, kind), 1), out |-> <<>>, RB |-> <<>>]

\* second notebook: MatrixModel(A, B, C) ends with AssertionError; C_op is
\* the right-hand side of model_W
MatrixModelVWRaises(A, B, C) ==
    LincombAsserts(A) \/ RhsAsserts(A, B) \/ RhsAsserts(A, Transpose(C))

\* V_exact of exact(A, B, C, mu, b, c): hstack of inv(s*I - A) @ B, times diag(b)
exact_V(A, B, mu, b) ==
    MatMul(Transpose([k \in 1..Len(mu) |->
               Col(MatMul(Inverse(MatSub(MatScal(mu[k], Eye(Len(A))), A)), B), 1)]),
           Diag(b))

\* W_exact: hstack of conj(inv(s*I - A).T) @ C.T, times diag(c)
exact_W(A, C, mu, c) ==
    MatMul(Transpose([k \in 1..Len(mu) |->
               Col(MatMul(Adjoint(Inverse(MatSub(MatScal(mu[k], Eye(Len(A))), A))),
                          Transpose(C)), 1)]),
           Diag(c))

\* np.linalg.inv raises LinAlgError at a point where s*I - A is singular
exact_raises(A, mu) ==
    \E k \in 1..Len(mu) : IsSingular(MatSub(MatScal(mu[k], Eye(Len(A))), A))

\* what a function returns: a numpy array or a pyMOR VectorArray.
\* space.make_array(M.T) holds the columns of M as its vectors.
AsArray(M) == [type |-> "ndarray", data |-> M]
AsVectorArray(vectors) == [type |-> "VectorArray", data |-> vectors]
NoArray == [type |-> "none", data |-> <<>>]

\* the n x r matrix a returned value stands for
MatrixOf(x) == IF x.type = "VectorArray" THEN Transpose(x.data) ELSE x.data

-----------------------------------------------------------------------------
(* Gram-Schmidt                                                             *)

\* one sweep of the modified Gram-Schmidt loop: for each kept vector q in
\* turn, v <- v - q.inner(v) * q
RECURSIVE OrthPass(_, _, _)
OrthPass(v, Q, j) ==
    IF j > Len(Q) THEN v
    ELSE OrthPass(VSub(v, Scal(Inner(Q[j], v), Q[j])), Q, j + 1)

\* The `while True` loop of gram_schmidt for one vector: sweep, drop the
\* vector when its norm is <= rtol * initial_norm = 0, sweep again while the
\* norm fell below reiteration_threshold = 0.9 of the old one, else scale.
\* Yields <<>> for a dropped vector and <<q>> for a kept one.
RECURSIVE Reiterate(_, _, _)
\* fault variant of Reiterate: the vector is divided by its squared norm
Reiterate_BySquaredNorm(v, old2, Q) ==
    LET u  == OrthPass(v, Q, 1)
        n2 == Norm2(u)
    IN  IF n2 = Zero THEN <<>>
        ELSE IF RLt(CMul(Re(100), n2), CMul(Re(81), old2)) THEN Reiterate(u, n2, Q)
        ELSE <<Scal(CInv(n2), u)>>
Reiterate(v, old2, Q) ==
    LET u  == OrthPass(v, Q, 1)
        n2 == Norm2(u)
    IN  IF n2 = Zero THEN <<>>
        ELSE IF RLt(CMul(Re(100), n2), CMul(Re(81), old2)) THEN Reiterate(u, n2, Q)
        ELSE <<Scal(CInv(Sqrt(n2)), u)>>

\* whether every norm the loop takes for vector v is a rational number
RECURSIVE NormsRational(_, _, _)
NormsRational(v, old2, Q) ==
    LET u  == OrthPass(v, Q, 1)
        n2 == Norm2(u)
    IN  IF n2 = Zero THEN TRUE
        ELSE IF RLt(CMul(Re(100), n2), CMul(Re(81), old2)) THEN NormsRational(u, n2, Q)
        ELSE HasSqrt(n2)

\* gram_schmidt(A, atol = 0, rtol = 0, check_tol = 1e-10): the vectors of A
\* from index i on, Q the vectors kept so far.  A vector of norm <= atol = 0
\* is dropped.  In exact arithmetic the final orthogonality check passes.
RECURSIVE GramSchmidtFrom(_, _, _)
GramSchmidtFrom(A, Q, i) ==
    IF i > Len(A) THEN Q
    ELSE IF Norm2(A[i]) = Zero THEN GramSchmidtFrom(A, Q, i + 1)
    ELSE GramSchmidtFrom(A, Q \o Reiterate(A[i], Norm2(A[i]), Q), i + 1)

gram_schmidt(A) == GramSchmidtFrom(A, <<>>, 1)

RECURSIVE RepresentableFrom(_, _, _)
RepresentableFrom(A, Q, i) ==
    IF i > Len(A) THEN TRUE
    ELSE IF Norm2(A[i]) = Zero THEN RepresentableFrom(A, Q, i + 1)
    ELSE /\ NormsRational(A[i], Norm2(A[i]), Q)
         /\ RepresentableFrom(A, Q \o Reiterate(A[i], Norm2(A[i]), Q), i + 1)

\* the arrays whose orthonormalization has rational entries
Representable(A) == A # <<>> /\ MatFinite(A) /\ RepresentableFrom(A, <<>>, 1)

-----------------------------------------------------------------------------
(* State                                                                    *)

VARIABLES
    notebook,          \* "transfer" (first notebook) or "projection" (second)
    sys,               \* the system [A, B, C] the caller holds
    rngState,          \* numpy's global generator
    pc,                \* where the running call is
    err,               \* the exception the running call raised, "" for none
    args,              \* the arguments of the running call
    training_set,      \* TFROM draws it, MatrixReductor is given it
    \* TFROM(model, rng, snap, rorder, atol, rtol)
    model_TF, snapshot_matrix, pod_basis, TF_ROM,
    runs,              \* what each finished TFROM call drew and returned
    output,            \* the last TF_ROM.output(s) of the caller
    \* MatrixModel(A, B, C) and MatrixReductor(model_V, model_W, ...)
    model_V, model_W, solution_snapshots_V, solution_snapshots_W,
    U_V, U_W, pod_rom_V, pod_rom_W,
    \* ProjectionMatrices(pod_rom_V, pod_rom_W, mu, b, c, numpy)
    reduced_solution_V, reduced_solution_W, V, W,
    \* Gram(V, W, biort, numpy)
    Q_V, Q_W, V_orth, W_orth

\* the energy-criterion cell of the first notebook: the singular values D,
\* the threshold, cumulative_energy and the number of modes m (0: not yet run)
VARIABLES D, threshold, cumulative_energy, m

\* the solves of a loop handed to concurrent workers: the state of the worker
\* of every task <<side, index>>, the pre-sized result slots of both sides
\* and the number of writes every slot has seen
VARIABLES worker, slots, writes

\* the comparison cells of the second notebook: the arrays V_exact, W_exact
\* and V, W = V_exact + eps*I, W_exact + eps*I they start from, and the pairs
\* the Gram calls of the cells have returned so far, in call order
VARIABLES study, returned

envVars == <<notebook, sys>>
tfVars == <<model_TF, snapshot_matrix, pod_basis, TF_ROM, runs, output>>
mrVars == <<model_V, model_W, solution_snapshots_V, solution_snapshots_W,
            U_V, U_W, pod_rom_V, pod_rom_W>>
pmVars == <<reduced_solution_V, reduced_solution_W, V, W>>
gramVars == <<Q_V, Q_W, V_orth, W_orth>>
energyVars == <<D, threshold, cumulative_energy, m>>
workerVars == <<worker, slots, writes>>
studyVars == <<study, returned>>
vars == <<envVars, rngState, pc, err, args, training_set, tfVars, mrVars, pmVars, gramVars,
          energyVars, workerVars, studyVars, studyVars>>

\* the largest number of TFROM calls in one session
MaxRuns == 2

\* rng: a real interval, a complex rectangle, a tuple of another length
RngTuples == { <<0, 8>>, <<4, 12>>, <<0, 8, 0, 8>>, <<0, 8, 1>> }
AtolValues == { Zero }
RtolValues == { Zero, <<1, 0, 2>> }
\* rorder: None or an order
Orders == { <<>> } \cup { <<k>> : k \in 1..MaxOrder }
\* the points at which the caller evaluates the ROM
EvalPoints == { Re(2), Cplx(1, 2) }
\* the states numpy's generator is in when the session starts
Seeds == { 0, 1, 3, 6 }

NoArgs == [call |-> "none"]
NoOutput == [s |-> Zero, value |-> Zero, raised |-> FALSE, given |-> FALSE]

\* no call has been made: every result is empty
NothingCalled ==
    /\ pc = "idle"
    /\ err = ""
    /\ args = NoArgs
    /\ training_set = <<>>
    /\ model_TF = NoModel
    /\ snapshot_matrix = <<>>
    /\ pod_basis = <<>>
    /\ TF_ROM = NoModel
    /\ runs = <<>>
    /\ output = NoOutput
    /\ model_V = NoModel
    /\ model_W = NoModel
    /\ solution_snapshots_V = <<>>
    /\ solution_snapshots_W = <<>>
    /\ U_V = <<>>
    /\ U_W = <<>>
    /\ pod_rom_V = NoModel
    /\ pod_rom_W = NoModel
    /\ reduced_solution_V = <<>>
    /\ reduced_solution_W = <<>>
    /\ V = NoArray
    /\ W = NoArray
    /\ Q_V = <<>>
    /\ Q_W = <<>>
    /\ V_orth = <<>>
    /\ W_orth = <<>>

\* the energy cell has not been given singular values
NoEnergy == D = <<>> /\ threshold = Zero /\ cumulative_energy = <<>> /\ m = 0

\* no loop has been handed to workers
NoWorkers == worker = <<>> /\ slots = <<>> /\ writes = <<>>

\* the comparison cells have not been run
NoStudy == study = <<>> /\ returned = <<>>

Init ==
    /\ notebook \in {"transfer", "projection"}
    /\ sys \in (IF notebook = "transfer" THEN TransferSystems ELSE ProjectionSystems)
    /\ rngState \in (IF notebook = "transfer" THEN Seeds ELSE {0})
    /\ NothingCalled
    /\ NoEnergy
    /\ NoWorkers
    /\ NoStudy

-----------------------------------------------------------------------------
(* First notebook: TFROM                                                    *)

\* what a finished call leaves to compare runs by
RunRecord(ts, snaps, rom, e) ==
    [training_set |-> ts, snapshot_matrix |-> snaps, TF_ROM |-> rom, err |-> e]

\* TFROM is entered: the assert on rng and MatrixModel(model.A, model.B, model.C)
EnterTFROM(a) ==
    /\ args' = a
    /\ model_TF' = MatrixModel(sys.A, sys.B, sys.C)
    /\ training_set' = <<>>
    /\ snapshot_matrix' = <<>>
    /\ pod_basis' = <<>>
    /\ TF_ROM' = NoModel
    /\ output' = NoOutput
    /\ err' = ""
    /\ pc' = "tf_sample"

CallTFROM ==
    /\ notebook = "transfer"
    /\ pc = "idle"
    /\ \E r \in RngTuples, n \in 1..MaxSnap, o \in Orders,
          at \in AtolValues, rt \in RtolValues :
            EnterTFROM([call |-> "TFROM", rng |-> r, snap |-> n, rorder |-> o,
                        atol |-> at, rtol |-> rt])
    /\ UNCHANGED <<envVars, energyVars, workerVars, studyVars, rngState, runs, mrVars, pmVars, gramVars>>

\* the caller runs the same call once more
CallTFROMAgain ==
    /\ pc \in {"tf_done", "tf_error"}
    /\ Len(runs) < MaxRuns
    /\ EnterTFROM(args)
    /\ UNCHANGED <<envVars, energyVars, workerVars, studyVars, rngState, runs, mrVars, pmVars, gramVars>>

\* fault variant of IsRealDomain: the first two bounds of a longer tuple are
\* taken as a real domain
IsRealDomain_FirstTwo(rng) == Len(rng) >= 2
\* `if len(rng) == 2` and `elif len(rng) == 4`
IsRealDomain(rng) == Len(rng) = 2
IsComplexDomain(rng) == Len(rng) = 4

\* the training set is drawn from numpy's global generator; a tuple that has
\* neither 2 nor 4 entries leaves training_set unbound and the loop's header
\* raises UnboundLocalError
TFROMSample ==
    /\ pc = "tf_sample"
    /\ LET r == args.rng
           n == args.snap
       IN  \/ /\ IsRealDomain(r)
              /\ training_set' = Uniform(r[1], r[2], n, rngState)
              /\ rngState' = StateAfter(rngState, n)
              /\ pc' = "tf_solve"
              /\ UNCHANGED <<err, runs>>
           \/ /\ ~IsRealDomain(r)
              /\ IsComplexDomain(r)
              /\ training_set' =
                    LET re == Uniform(r[1], r[2], n, rngState)
                        im == Uniform(r[3], r[4], n, StateAfter(rngState, n))
                    IN  [k \in 1..n |-> CAdd(re[k], CMul(Cplx(0, 1), im[k]))]
              /\ rngState' = StateAfter(rngState, 2 * n)
              /\ pc' = "tf_solve"
              /\ UNCHANGED <<err, runs>>
           \/ /\ ~IsRealDomain(r)
              /\ ~IsComplexDomain(r)
              /\ pc' = "tf_error"
              /\ err' = "UnboundLocalError"
              /\ runs' = Append(runs, RunRecord(<<>>, <<>>, NoModel, "UnboundLocalError"))
              /\ UNCHANGED <<training_set, rngState>>
    /\ UNCHANGED <<envVars, energyVars, workerVars, studyVars, args, model_TF, snapshot_matrix, pod_basis, TF_ROM, output,
                   mrVars, pmVars, gramVars>>

\* fault variant of NextParam: the parameters are taken from the end
NextParam_FromEnd(params, snapshots) == params[Len(params) - Len(snapshots)]
\* the `s` of the turn of `for s in params` that appends the next snapshot
NextParam(params, snapshots) == params[Len(snapshots) + 1]

\* fault variant of LoopDone: the loop stops before the last parameter
LoopDone_OneEarly(snapshots, params) == Len(snapshots) + 1 >= Len(params)
\* `for s in training_set` has run out of parameters: one snapshot was
\* appended for every parameter
LoopDone(snapshots, params) == Len(snapshots) = Len(params)

\* one turn of `for s in training_set: snapshot_matrix.append(model_TF.solve(s))`.
\* On an exactly singular operator the solve raises InversionError or, in
\* the pyMOR releases that only warn, returns a non-finite vector.
TFROMSolve ==
    /\ pc = "tf_solve"
    /\ Len(snapshot_matrix) < Len(training_set)
    /\ LET s == NextParam(training_set, snapshot_matrix)
       IN  \/ /\ snapshot_matrix' = Append(snapshot_matrix, Solve(model_TF, s))
              /\ UNCHANGED <<pc, err, runs>>
           \/ /\ IsSingular(OperatorAt(model_TF, s))
              /\ pc' = "tf_error"
              /\ err' = "InversionError"
              /\ runs' = Append(runs, RunRecord(training_set, snapshot_matrix, NoModel, "InversionError"))
              /\ UNCHANGED snapshot_matrix
    /\ UNCHANGED <<envVars, energyVars, workerVars, studyVars, rngState, args, model_TF, training_set, pod_basis, TF_ROM,
                   output, mrVars, pmVars, gramVars>>

\* pod_basis, _ = pod(snapshot_matrix, modes = rorder, atol = atol, rtol = rtol)
TFROMPod ==
    /\ pc = "tf_solve"
    /\ LoopDone(snapshot_matrix, training_set)
    /\ \/ /\ PodAsserts(snapshot_matrix, args.rorder)
          /\ pc' = "tf_error"
          /\ err' = "AssertionError"
          /\ runs' = Append(runs, RunRecord(training_set, snapshot_matrix, NoModel, "AssertionError"))
          /\ UNCHANGED pod_basis
       \/ /\ ~PodAsserts(snapshot_matrix, args.rorder)
          /\ SvdRaises(snapshot_matrix)
          /\ pc' = "tf_error"
          /\ err' = "ValueError"
          /\ runs' = Append(runs, RunRecord(training_set, snapshot_matrix, NoModel, "ValueError"))
          /\ UNCHANGED pod_basis
       \/ /\ ~PodAsserts(snapshot_matrix, args.rorder)
          /\ ~SvdRaises(snapshot_matrix)
          /\ \E U \in Unitaries(Len(sys.A)) :
                /\ IsSvdU(U, Transpose(snapshot_matrix))
                /\ pod_basis' = Pod(snapshot_matrix, args.rorder, args.atol, args.rtol, U)
          /\ pc' = "tf_reduce"
          /\ UNCHANGED <<err, runs>>
    /\ UNCHANGED <<envVars, energyVars, workerVars, studyVars, rngState, args, model_TF, training_set, snapshot_matrix,
                   TF_ROM, output, mrVars, pmVars, gramVars>>

\* TF_ROM = StationaryRBReductor(model_TF, RB = pod_basis).reduce(); return TF_ROM
TFROMReduce ==
    /\ pc = "tf_reduce"
    /\ TF_ROM' = Reduce(model_TF, pod_basis)
    /\ pc' = "tf_done"
    /\ runs' = Append(runs, RunRecord(training_set, snapshot_matrix, Reduce(model_TF, pod_basis), ""))
    /\ UNCHANGED <<envVars, energyVars, workerVars, studyVars, rngState, err, args, model_TF, training_set, snapshot_matrix,
                   pod_basis, output, mrVars, pmVars, gramVars>>

\* fault variant of OutputOf: the result is added to the value the
\* evaluation before has left
OutputOf_Accumulated(s) == CAdd(output.value, Output(TF_ROM, s))
\* TF_ROM.output(s)[0, 0]
OutputOf(s) == Output(TF_ROM, s)

\* online phase: TF_ROM.output(s)
EvalOutput ==
    /\ pc = "tf_done"
    /\ \E s \in EvalPoints :
          \/ output' = [s |-> s, value |-> OutputOf(s), raised |-> FALSE, given |-> TRUE]
          \/ /\ IsSingular(OperatorAt(TF_ROM, s))
             /\ output' = [s |-> s, value |-> NaN, raised |-> TRUE, given |-> TRUE]
    /\ UNCHANGED <<envVars, energyVars, workerVars, studyVars, rngState, pc, err, args, model_TF, training_set,
                   snapshot_matrix, pod_basis, TF_ROM, runs, mrVars, pmVars, gramVars>>

-----------------------------------------------------------------------------
(* Second notebook: MatrixModel and MatrixReductor                          *)

\* the parameters the caller puts into a training set
TrainingPoints == { Re(0), Re(3) }
TrainingSets == UNION { [1..n -> TrainingPoints] : n \in 1..MaxSnap }

\* model_V, model_W = MatrixModel(A, B, C), the matrices held as arrays or
\* as NumpyMatrixOperators
CallMatrixModel ==
    /\ notebook = "projection"
    /\ pc = "idle"
    /\ \E kind \in Kinds :
          IF MatrixModelVWRaises(sys.A, sys.B, sys.C)
          THEN /\ pc' = "models_error"
               /\ err' = "AssertionError"
               /\ UNCHANGED <<model_V, model_W>>
          ELSE /\ model_V' = MatrixModel_V(sys.A, sys.B, sys.C)
               /\ model_W' = MatrixModel_W(sys.A, sys.B, sys.C, kind)
               /\ pc' = "models"
               /\ UNCHANGED err
    /\ UNCHANGED <<envVars, energyVars, workerVars, studyVars, rngState, args, training_set, tfVars,
                   solution_snapshots_V, solution_snapshots_W, U_V, U_W,
                   pod_rom_V, pod_rom_W, pmVars, gramVars>>

CallMatrixReductor ==
    /\ pc = "models"
    /\ \E ts \in TrainingSets, rV \in 1..MaxOrder, rW \in 1..MaxOrder :
          /\ training_set' = ts
          /\ args' = [call |-> "MatrixReductor", reduced_order_V |-> rV,
                      reduced_order_W |-> rW]
    /\ pc' = "mr_solve"
    /\ UNCHANGED <<envVars, energyVars, workerVars, studyVars, rngState, err, tfVars, mrVars, pmVars, gramVars>>

\* solution_snapshots_V.append(model_V.solve(s)); a singular operator makes
\* the solve raise or, where the library only warns, return a non-finite vector
MRSolveV ==
    /\ pc = "mr_solve"
    /\ Len(solution_snapshots_V) < Len(training_set)
    /\ Len(solution_snapshots_W) = Len(solution_snapshots_V)
    /\ LET s == NextParam(training_set, solution_snapshots_V)
       IN  \/ /\ solution_snapshots_V' = Append(solution_snapshots_V, Solve(model_V, s))
              /\ UNCHANGED <<pc, err>>
           \/ /\ IsSingular(OperatorAt(model_V, s))
              /\ pc' = "mr_error"
              /\ err' = "InversionError"
              /\ UNCHANGED solution_snapshots_V
    /\ UNCHANGED <<envVars, energyVars, workerVars, studyVars, rngState, args, training_set, tfVars, model_V, model_W,
                   solution_snapshots_W, U_V, U_W, pod_rom_V, pod_rom_W, pmVars, gramVars>>

\* solution_snapshots_W.append(model_W.solve(s))
MRSolveW ==
    /\ pc = "mr_solve"
    /\ Len(solution_snapshots_W) < Len(solution_snapshots_V)
    /\ LET s == NextParam(training_set, solution_snapshots_W)
       IN  \/ /\ solution_snapshots_W' = Append(solution_snapshots_W, Solve(model_W, s))
              /\ UNCHANGED <<pc, err>>
           \/ /\ IsSingular(OperatorAt(model_W, s))
              /\ pc' = "mr_error"
              /\ err' = "InversionError"
              /\ UNCHANGED solution_snapshots_W
    /\ UNCHANGED <<envVars, energyVars, workerVars, studyVars, rngState, args, training_set, tfVars, model_V, model_W,
                   solution_snapshots_V, U_V, U_W, pod_rom_V, pod_rom_W, pmVars, gramVars>>

\* U_V, D_V, Vt_V = np.linalg.svd(snapshot_matrix_V, full_matrices = True)
\* and the same for W
MRSvd ==
    /\ pc = "mr_solve"
    /\ LoopDone(solution_snapshots_W, training_set)
    /\ \/ /\ SvdRaises(solution_snapshots_V) \/ SvdRaises(solution_snapshots_W)
          /\ pc' = "mr_error"
          /\ err' = "LinAlgError"
          /\ UNCHANGED <<U_V, U_W>>
       \/ /\ ~SvdRaises(solution_snapshots_V)
          /\ ~SvdRaises(solution_snapshots_W)
          /\ \E UV, UW \in Unitaries(Len(sys.A)) :
                /\ IsSvdU(UV, Transpose(solution_snapshots_V))
                /\ IsSvdU(UW, Transpose(solution_snapshots_W))
                /\ U_V' = UV
                /\ U_W' = UW
          /\ pc' = "mr_check"
          /\ UNCHANGED err
    /\ UNCHANGED <<envVars, energyVars, workerVars, studyVars, rngState, args, training_set, tfVars, model_V, model_W,
                   solution_snapshots_V, solution_snapshots_W, pod_rom_V, pod_rom_W,
                   pmVars, gramVars>>

\* min(snapshot_matrix.shape)
MinShape(snapshots) == Min(Len(snapshots[1]), Len(snapshots))

\* the two rank checks, then the POD bases U[:, :reduced_order] and the
\* StationaryRBReductor(...).reduce() of both models
MRReduce ==
    /\ pc = "mr_check"
    /\ \/ /\ args.reduced_order_V > MinShape(solution_snapshots_V)
          /\ pc' = "mr_error"
          /\ err' = "ValueError"
          /\ UNCHANGED <<pod_rom_V, pod_rom_W>>
       \/ /\ args.reduced_order_V <= MinShape(solution_snapshots_V)
          /\ args.reduced_order_W > MinShape(solution_snapshots_W)
          /\ pc' = "mr_error"
          /\ err' = "ValueError"
          /\ UNCHANGED <<pod_rom_V, pod_rom_W>>
       \/ /\ args.reduced_order_V <= MinShape(solution_snapshots_V)
          /\ args.reduced_order_W <= MinShape(solution_snapshots_W)
          /\ pod_rom_V' = Reduce(model_V, FirstColumns(U_V, args.reduced_order_V))
          /\ pod_rom_W' = Reduce(model_W, FirstColumns(U_W, args.reduced_order_W))
          /\ pc' = "mr_done"
          /\ UNCHANGED err
    /\ UNCHANGED <<envVars, energyVars, workerVars, studyVars, rngState, args, training_set, tfVars, model_V, model_W,
                   solution_snapshots_V, solution_snapshots_W, U_V, U_W, pmVars, gramVars>>

-----------------------------------------------------------------------------
(* Second notebook: ProjectionMatrices                                      *)

\* the interpolation points mu and the weights b, c the caller passes
InterpPoints == { Re(0), Cplx(0, 1) }
InterpSets == UNION { [1..r -> InterpPoints] : r \in 1..MaxPoints }
WeightsB(len) == [i \in 1..len |-> Re(i + 1)]
WeightsC(len) == [i \in 1..len |-> Cplx(1, i)]

CallProjectionMatrices ==
    /\ pc = "mr_done"
    /\ \E mu \in InterpSets, db \in {0, 1}, dc \in {0, 1}, np \in BOOLEAN :
          /\ args' = [call |-> "ProjectionMatrices", mu |-> mu,
                      b |-> WeightsB(Len(mu) + db), c |-> WeightsC(Len(mu) + dc),
                      numpy |-> np]
    /\ pc' = "pm_solve"
    /\ UNCHANGED <<envVars, energyVars, workerVars, studyVars, rngState, err, training_set, tfVars, mrVars, pmVars, gramVars>>

\* reduced_solution_V.append(pod_rom_V.solve(s))
PMSolveV ==
    /\ pc = "pm_solve"
    /\ Len(reduced_solution_V) < Len(args.mu)
    /\ Len(reduced_solution_W) = Len(reduced_solution_V)
    /\ LET s == NextParam(args.mu, reduced_solution_V)
       IN  \/ /\ reduced_solution_V' = Append(reduced_solution_V, Solve(pod_rom_V, s))
              /\ UNCHANGED <<pc, err>>
           \/ /\ IsSingular(OperatorAt(pod_rom_V, s))
              /\ pc' = "pm_error"
              /\ err' = "InversionError"
              /\ UNCHANGED reduced_solution_V
    /\ UNCHANGED <<envVars, energyVars, workerVars, studyVars, rngState, args, training_set, tfVars, mrVars,
                   reduced_solution_W, V, W, gramVars>>

\* reduced_solution_W.append(pod_rom_W.solve(s))
PMSolveW ==
    /\ pc = "pm_solve"
    /\ Len(reduced_solution_W) < Len(reduced_solution_V)
    /\ LET s == NextParam(args.mu, reduced_solution_W)
       IN  \/ /\ reduced_solution_W' = Append(reduced_solution_W, Solve(pod_rom_W, s))
              /\ UNCHANGED <<pc, err>>
           \/ /\ IsSingular(OperatorAt(pod_rom_W, s))
              /\ pc' = "pm_error"
              /\ err' = "InversionError"
              /\ UNCHANGED reduced_solution_W
    /\ UNCHANGED <<envVars, energyVars, workerVars, studyVars, rngState, args, training_set, tfVars, mrVars,
                   reduced_solution_V, V, W, gramVars>>

\* R = make_array(reductor.reconstruct(reduced_solution).to_numpy().T).to_numpy():
\* the n x r matrix whose column i is the reconstruction of solution i
Reconstructed(rom, reduced_solution, n) ==
    Transpose([k \in 1..Len(reduced_solution) |->
                   Reconstruct(rom.RB, reduced_solution[k], n)])

\* fault variant of MatmulRaises: only too few weights are noticed
MatmulRaises_TooFewOnly(R, w) == NCols(R) > Len(w)
\* np.matmul(R, np.diag(w)) raises ValueError unless R has len(w) columns
MatmulRaises(R, w) == NCols(R) # Len(w)

\* fault variant of Returned: make_array is given the matrix without .T
Returned_Untransposed(M, numpy) == IF numpy THEN AsArray(M) ELSE AsVectorArray(M)
\* V or V_numpy.T as a VectorArray, by the numpy flag
Returned(M, numpy) == IF numpy THEN AsArray(M) ELSE AsVectorArray(Transpose(M))

\* after the loop: reconstruct, scale by diag(b) and diag(c), return [V, W]
PMAssemble ==
    /\ pc = "pm_solve"
    /\ Len(reduced_solution_W) = Len(args.mu)
    /\ LET n   == Len(sys.A)
           R_V == Reconstructed(pod_rom_V, reduced_solution_V, n)
           R_W == Reconstructed(pod_rom_W, reduced_solution_W, n)
       IN  \/ /\ MatmulRaises(R_V, args.b) \/ MatmulRaises(R_W, args.c)
              /\ pc' = "pm_error"
              /\ err' = "ValueError"
              /\ UNCHANGED <<V, W>>
           \/ /\ ~MatmulRaises(R_V, args.b)
              /\ ~MatmulRaises(R_W, args.c)
              /\ V' = Returned(MatMul(R_V, Diag(args.b)), args.numpy)
              /\ W' = Returned(MatMul(R_W, Diag(args.c)), args.numpy)
              /\ pc' = "pm_done"
              /\ UNCHANGED err
    /\ UNCHANGED <<envVars, energyVars, workerVars, studyVars, rngState, args, training_set, tfVars, mrVars,
                   reduced_solution_V, reduced_solution_W, gramVars>>

-----------------------------------------------------------------------------
(* Second notebook: Gram                                                    *)

\* the VectorArrays the caller passes to Gram, in dimension 2 and 3
GramArrays ==
    { << <<Re(1), Re(0)>>, <<Re(0), Re(1)>> >>,
      << <<Re(3), Re(4)>>, <<Re(-4), Re(3)>> >>,
      << <<Re(3), Re(4)>> >>,
      << <<Re(4), Re(-3)>> >>,
      << <<Re(3), Re(4)>>, <<Re(6), Re(8)>> >>,
      << <<Cplx(0, 2), Re(0)>>, <<Cplx(0, 1), Re(1)>> >>,
      << <<Re(1), Re(0), Re(0)>>, <<Re(0), Re(1), Re(0)>> >>,
      << <<Re(2), Re(0), Re(0)>>, <<Re(1), Re(21), Re(220)>> >> }

CallGram ==
    /\ notebook = "projection"
    /\ pc = "idle"
    /\ \E Vin \in GramArrays, Win \in GramArrays, biort \in BOOLEAN, np \in BOOLEAN :
          args' = [call |-> "Gram", V |-> Vin, W |-> Win, biort |-> biort, numpy |-> np]
    /\ pc' = "gram_orth"
    /\ UNCHANGED <<envVars, energyVars, workerVars, studyVars, rngState, err, training_set, tfVars, mrVars, pmVars, gramVars>>

\* the two gram_schmidt calls and V_orth = Q_V.to_numpy().T, W_orth likewise
GramOrth ==
    /\ pc = "gram_orth"
    /\ Representable(args.V)
    /\ Representable(args.W)
    /\ Q_V' = gram_schmidt(args.V)
    /\ Q_W' = gram_schmidt(args.W)
    /\ V_orth' = Transpose(gram_schmidt(args.V))
    /\ W_orth' = Transpose(gram_schmidt(args.W))
    /\ pc' = "gram_return"
    /\ UNCHANGED <<envVars, energyVars, workerVars, studyVars, rngState, err, args, training_set, tfVars, mrVars, pmVars>>

\* W_orth.T @ V_orth raises ValueError when the row counts differ
PairingRaises(Worth, Vorth) == NRows(Worth) # NRows(Vorth)
\* fault variant of Pairing: W_orth.conj().T @ V_orth
Pairing_Conjugated(Worth, Vorth) == MatMul(Adjoint(Worth), Vorth)
\* W_orth.T @ V_orth
Pairing(Worth, Vorth) == MatMul(Transpose(Worth), Vorth)
\* np.linalg.inv raises LinAlgError on a matrix that is not square or is singular
InvRaises(M) == IF NRows(M) # NCols(M) THEN TRUE ELSE IsSingular(M)

\* fault variant of Paired: V_orth is returned as gram_schmidt left it
Paired_Unapplied(Vorth, M) == Vorth
\* V_orth = V_orth @ M
Paired(Vorth, M) == MatMul(Vorth, M)

\* the biort branch and the return of [V, W]
GramReturn ==
    /\ pc = "gram_return"
    /\ \/ /\ ~args.biort
          /\ V' = IF args.numpy THEN AsArray(V_orth) ELSE AsVectorArray(Q_V)
          /\ W' = IF args.numpy THEN AsArray(W_orth) ELSE AsVectorArray(Q_W)
          /\ pc' = "gram_done"
          /\ UNCHANGED <<err, V_orth>>
       \/ /\ args.biort
          /\ PairingRaises(W_orth, V_orth)
          /\ pc' = "gram_error"
          /\ err' = "ValueError"
          /\ UNCHANGED <<V, W, V_orth>>
       \/ /\ args.biort
          /\ ~PairingRaises(W_orth, V_orth)
          /\ InvRaises(Pairing(W_orth, V_orth))
          /\ pc' = "gram_error"
          /\ err' = "LinAlgError"
          /\ UNCHANGED <<V, W, V_orth>>
       \/ /\ args.biort
          /\ ~PairingRaises(W_orth, V_orth)
          /\ ~InvRaises(Pairing(W_orth, V_orth))
          /\ LET M == Inverse(Pairing(W_orth, V_orth))
             IN  /\ V_orth' = Paired(V_orth, M)
                 /\ V' = Returned(Paired(V_orth, M), args.numpy)
                 /\ W' = Returned(W_orth, args.numpy)
          /\ pc' = "gram_done"
          /\ UNCHANGED err
    /\ UNCHANGED <<envVars, energyVars, workerVars, studyVars, rngState, args, training_set, tfVars, mrVars,
                   reduced_solution_V, reduced_solution_W, Q_V, Q_W, W_orth>>

-----------------------------------------------------------------------------

Next ==
    \/ CallTFROM
    \/ CallTFROMAgain
    \/ TFROMSample
    \/ TFROMSolve
    \/ TFROMPod
    \/ TFROMReduce
    \/ EvalOutput
    \/ CallMatrixModel
    \/ CallMatrixReductor
    \/ MRSolveV
    \/ MRSolveW
    \/ MRSvd
    \/ MRReduce
    \/ CallProjectionMatrices
    \/ PMSolveV
    \/ PMSolveW
    \/ PMAssemble
    \/ CallGram
    \/ GramOrth
    \/ GramReturn

Spec == Init /\ [][Next]_vars

-----------------------------------------------------------------------------
(* Gram called on what Gram returned                                        *)

InitOrth == Init /\ notebook = "projection"

\* the caller passes the VectorArrays of Gram(V, W, biort = False) to Gram again
CallGramAgain ==
    /\ pc = "gram_done"
    /\ ~args.biort
    /\ V.type = "VectorArray"
    /\ args.V # V.data \/ args.W # W.data
    /\ args' = [args EXCEPT !.V = V.data, !.W = W.data]
    /\ pc' = "gram_orth"
    /\ UNCHANGED <<envVars, energyVars, workerVars, studyVars, rngState, err, training_set, tfVars,
                   mrVars, pmVars, gramVars>>

NextOrth ==
    \/ CallGram
    \/ GramOrth
    \/ GramReturn
    \/ CallGramAgain

SpecOrth == InitOrth /\ [][NextOrth]_vars

-----------------------------------------------------------------------------
(* MatrixModel on matrices of every shape                                   *)

\* the largest number of rows or columns of A, B and C
MaxDim == 2

\* an r x c array with `diagonal` on its diagonal and `other` elsewhere
Shaped(r, c, diagonal, other) ==
    [i \in 1..r |-> [j \in 1..c |-> IF i = j THEN diagonal ELSE other]]

ShapedSystems ==
    { [A |-> Shaped(ra, ca, Re(2), Zero), B |-> Shaped(rb, cb, One, One),
       C |-> Shaped(rc, cc, One, One)] :
        ra \in 1..MaxDim, ca \in 1..MaxDim, rb \in 1..MaxDim,
        cb \in 1..MaxDim, rc \in 1..MaxDim, cc \in 1..MaxDim }

InitShapes ==
    /\ notebook \in {"transfer", "projection"}
    /\ sys \in ShapedSystems
    /\ rngState = 0
    /\ NothingCalled
    /\ NoEnergy
    /\ NoWorkers
    /\ NoStudy

\* first notebook: model_TF = MatrixModel(A = matrixA, B = matrixB, C = matrixC)
CallMatrixModelTF ==
    /\ notebook = "transfer"
    /\ pc = "idle"
    /\ IF MatrixModelRaises(sys.A, sys.B, sys.C)
       THEN /\ pc' = "model_error"
            /\ err' = "AssertionError"
            /\ UNCHANGED model_TF
       ELSE /\ model_TF' = MatrixModel(sys.A, sys.B, sys.C)
            /\ pc' = "model"
            /\ UNCHANGED err
    /\ UNCHANGED <<envVars, energyVars, workerVars, studyVars, rngState, args, training_set, snapshot_matrix,
                   pod_basis, TF_ROM, runs, output, mrVars, pmVars, gramVars>>

NextShapes ==
    \/ CallMatrixModelTF
    \/ CallMatrixModel

SpecShapes == InitShapes /\ [][NextShapes]_vars

-----------------------------------------------------------------------------
(* The energy-criterion cell, run on singular values of its own            *)

\* the largest number of singular values and the largest singular value
MaxModes == 3
MaxSigma == 3

\* non-increasing sequences of singular values, the all-zero ones included
SingularValues ==
    { d \in UNION { [1..n -> { Re(k) : k \in 0..MaxSigma }] : n \in 1..MaxModes } :
        IsNonIncreasing(d) }
\* the energy fractions: 1/2, 9/10, the cell's 99/100, and 1
EnergyFractions == { <<1, 0, 2>>, <<9, 0, 10>>, <<99, 0, 100>>, One }

NoSystem == [A |-> <<>>, B |-> <<>>, C |-> <<>>]

InitEnergy ==
    /\ notebook = "transfer"
    /\ sys = NoSystem
    /\ rngState = 0
    /\ NothingCalled
    /\ D \in SingularValues
    /\ threshold \in EnergyFractions
    /\ cumulative_energy = <<>>
    /\ m = 0
    /\ NoWorkers
    /\ NoStudy

\* the cell: cumulative_energy, then m
EnergyCell ==
    /\ m = 0
    /\ D # <<>>
    /\ cumulative_energy' = CumulativeEnergy(D)
    /\ m' = EnergyModes(D, threshold)
    /\ UNCHANGED <<envVars, rngState, pc, err, args, training_set, tfVars, mrVars, pmVars,
                   gramVars, workerVars, studyVars, D, threshold>>

SpecEnergy == InitEnergy /\ [][EnergyCell]_vars

-----------------------------------------------------------------------------
(* The solves of a loop distributed over concurrent workers, next to the    *)
(* sequential loop of the code                                              *)

Sides == {"V", "W"}

\* the parameters of the running loop and the model each side solves: the
\* training set and the full-order models in MatrixReductor, mu and the ROMs
\* in ProjectionMatrices
JobParams == IF args.call = "MatrixReductor" THEN training_set ELSE args.mu
JobModel(side) ==
    IF args.call = "MatrixReductor"
    THEN (IF side = "V" THEN model_V ELSE model_W)
    ELSE (IF side = "V" THEN pod_rom_V ELSE pod_rom_W)

\* one worker per solve, all ready; one empty slot and no write per solve
WorkersFor(n) ==
    /\ worker = [t \in Sides \X (1..n) |-> "ready"]
    /\ slots = [side \in Sides |-> [i \in 1..n |-> <<>>]]
    /\ writes = [side \in Sides |-> [i \in 1..n |-> 0]]

\* model.solve(s) for every s of the training set
SolveAll(model, params) == [i \in 1..Len(params) |-> Solve(model, params[i])]

\* the state in which MatrixReductor enters its loop
AtReductorLoop ==
    /\ \E kind \in Kinds, ts \in TrainingSets :
          /\ model_V = MatrixModel_V(sys.A, sys.B, sys.C)
          /\ model_W = MatrixModel_W(sys.A, sys.B, sys.C, kind)
          /\ training_set = ts
    /\ args = [call |-> "MatrixReductor", reduced_order_V |-> 1, reduced_order_W |-> 1]
    /\ pc = "mr_solve"
    /\ solution_snapshots_V = <<>>
    /\ solution_snapshots_W = <<>>
    /\ U_V = <<>>
    /\ U_W = <<>>
    /\ pod_rom_V = NoModel
    /\ pod_rom_W = NoModel

\* the state in which ProjectionMatrices enters its loop, MatrixReductor
\* having returned the ROMs of one training parameter
AtProjectionLoop ==
    /\ \E kind \in Kinds, p \in TrainingPoints :
          /\ model_V = MatrixModel_V(sys.A, sys.B, sys.C)
          /\ model_W = MatrixModel_W(sys.A, sys.B, sys.C, kind)
          /\ training_set = <<p>>
    /\ solution_snapshots_V = SolveAll(model_V, training_set)
    /\ solution_snapshots_W = SolveAll(model_W, training_set)
    /\ MatFinite(solution_snapshots_V)
    /\ MatFinite(solution_snapshots_W)
    /\ \E UV, UW \in Unitaries(Len(sys.A)) :
          /\ IsSvdU(UV, Transpose(solution_snapshots_V))
          /\ IsSvdU(UW, Transpose(solution_snapshots_W))
          /\ U_V = UV
          /\ U_W = UW
    /\ pod_rom_V = Reduce(model_V, FirstColumns(U_V, MinShape(solution_snapshots_V)))
    /\ pod_rom_W = Reduce(model_W, FirstColumns(U_W, MinShape(solution_snapshots_W)))
    /\ \E mu \in InterpSets :
          args = [call |-> "ProjectionMatrices", mu |-> mu,
                  b |-> WeightsB(Len(mu)), c |-> WeightsC(Len(mu)), numpy |-> TRUE]
    /\ pc = "pm_solve"

InitWorkers ==
    /\ notebook = "projection"
    /\ NoStudy
    /\ sys \in ProjectionSystems
    /\ rngState = 0
    /\ err = ""
    /\ model_TF = NoModel
    /\ snapshot_matrix = <<>>
    /\ pod_basis = <<>>
    /\ TF_ROM = NoModel
    /\ runs = <<>>
    /\ output = NoOutput
    /\ reduced_solution_V = <<>>
    /\ reduced_solution_W = <<>>
    /\ V = NoArray
    /\ W = NoArray
    /\ Q_V = <<>>
    /\ Q_W = <<>>
    /\ V_orth = <<>>
    /\ W_orth = <<>>
    /\ NoEnergy
    /\ AtReductorLoop \/ AtProjectionLoop
    /\ WorkersFor(Len(JobParams))

\* fault variant of WriteSlot: the result goes to the first free slot of the
\* side, as an append to a shared accumulator would place it
WriteSlot_Append(s, t, x) ==
    LET free == CHOOSE i \in 1..Len(s[t[1]]) :
                    s[t[1]][i] = <<>> /\ \A j \in 1..(i - 1) : s[t[1]][j] # <<>>
    IN  [s EXCEPT ![t[1]][free] = x]
\* the result x of task t = <<side, index>> goes to the slot of its index
WriteSlot(s, t, x) == [s EXCEPT ![t[1]][t[2]] = x]

\* what the sequential loop of the running call has collected
SequentialResult(side) ==
    IF args.call = "MatrixReductor"
    THEN (IF side = "V" THEN solution_snapshots_V ELSE solution_snapshots_W)
    ELSE (IF side = "V" THEN reduced_solution_V ELSE reduced_solution_W)

\* the sequential loop is through
LoopThrough == \A side \in Sides : Len(SequentialResult(side)) = Len(JobParams)

\* The worker of one task solves its parameter and writes its slot; on a
\* singular operator the solve raises or returns a non-finite vector.  The
\* workers share nothing with the loop, so they are run on the parameters
\* the loop has gone through.
WorkerRun ==
    /\ LoopThrough
    /\ \E t \in DOMAIN worker :
          /\ worker[t] = "ready"
          /\ \/ /\ slots' = WriteSlot(slots, t, Solve(JobModel(t[1]), JobParams[t[2]]))
                /\ writes' = [writes EXCEPT ![t[1]][t[2]] = @ + 1]
                /\ worker' = [worker EXCEPT ![t] = "written"]
             \/ /\ IsSingular(OperatorAt(JobModel(t[1]), JobParams[t[2]]))
                /\ worker' = [worker EXCEPT ![t] = "raised"]
                /\ UNCHANGED <<slots, writes>>
    /\ UNCHANGED <<envVars, energyVars, studyVars, rngState, pc, err, args, training_set,
                   tfVars, mrVars, pmVars, gramVars>>

NextWorkers ==
    \/ MRSolveV
    \/ MRSolveW
    \/ PMSolveV
    \/ PMSolveW
    \/ WorkerRun

SpecWorkers == InitWorkers /\ [][NextWorkers]_vars

-----------------------------------------------------------------------------
(* Properties of the first notebook                                         *)

RePart(z) == Mk(z[1], 0, z[3])
ImPart(z) == Mk(z[2], 0, z[3])
Between(low, x, high) == RLeq(Re(low), x) /\ RLeq(x, Re(high))

\* C1: when the ROM returned by TFROM has a basis of rank k = n and s is not
\* an eigenvalue of A, TF_ROM.output(s) equals C (sI - A)^-1 B.
C1_FullRankRomIsExact ==
    ( /\ pc = "tf_done"
      /\ output.given
      /\ ~output.raised
      /\ Len(TF_ROM.RB) = Len(sys.A)
      /\ ~TF_exact_raises(sys.A, output.s) )
    => output.value = TF_exact(sys.A, sys.B, sys.C, output.s)[1][1]

\* C1 witness: a ROM of a 2-dimensional system with a rank-2 basis has been
\* evaluated at a complex parameter that is no eigenvalue.
C1_Witness ==
    /\ pc = "tf_done"
    /\ output.given
    /\ ~output.raised
    /\ Len(sys.A) = 2
    /\ Len(TF_ROM.RB) = 2
    /\ ~IsReal(output.s)
    /\ ~TF_exact_raises(sys.A, output.s)

\* the fixed rank a call asks for exceeds min(n, snapshot count)
TFROMRankExceeded ==
    /\ args.call = "TFROM"
    /\ args.rorder # <<>>
    /\ args.rorder[1] > Min(Len(sys.A), args.snap)
MRRankExceeded ==
    /\ args.call = "MatrixReductor"
    /\ \/ args.reduced_order_V > Min(Len(sys.A), Len(training_set))
       \/ args.reduced_order_W > Min(Len(sys.A), Len(training_set))

\* C2: a call that asks for a fixed rank above min(n, snapshot count) never
\* gets a reduced basis or a reduced system, from TFROM or from MatrixReductor.
C2_RankExceededYieldsNothing ==
    /\ TFROMRankExceeded => (pod_basis = <<>> /\ TF_ROM = NoModel /\ pc # "tf_done")
    /\ MRRankExceeded => (pod_rom_V = NoModel /\ pod_rom_W = NoModel /\ pc # "mr_done")

\* C3: two TFROM calls with the same system and the same arguments draw the
\* same training set and end with the same snapshots and the same ROM.
C3_RunsRepeat == Len(runs) >= 2 => runs[1] = runs[2]

\* C9: the training set has `snap` parameters and, once the loop is through,
\* the snapshot array `snap` vectors; for rng of length 2 each parameter is
\* real and within the two bounds, for length 4 its real part is within the
\* first two bounds and its imaginary part within the last two.
C9_SamplesCountedAndBounded ==
    (args.call = "TFROM" /\ pc \in {"tf_solve", "tf_reduce", "tf_done"}) =>
        /\ Len(training_set) = args.snap
        /\ pc \in {"tf_reduce", "tf_done"} => Len(snapshot_matrix) = args.snap
        /\ Len(args.rng) = 2 =>
              \A k \in 1..Len(training_set) :
                  /\ IsReal(training_set[k])
                  /\ Between(args.rng[1], training_set[k], args.rng[2])
        /\ Len(args.rng) = 4 =>
              \A k \in 1..Len(training_set) :
                  /\ Between(args.rng[1], RePart(training_set[k]), args.rng[2])
                  /\ Between(args.rng[3], ImPart(training_set[k]), args.rng[4])

\* C9 witness: a finished call with a four-bound domain and snap = 2 that
\* drew a parameter with a nonzero imaginary part.
C9_Witness ==
    /\ pc = "tf_done"
    /\ Len(args.rng) = 4
    /\ args.snap = 2
    /\ Len(snapshot_matrix) = 2
    /\ \E k \in 1..2 : ~IsReal(training_set[k])

\* C10: after a solve of the sampling loop raised, nothing is returned: no
\* basis, no reduced system, and the parameters after the failing one were
\* never solved; the failing parameter makes the operator singular.
C10_SolveErrorAborts ==
    /\ (pc = "tf_error" /\ err = "InversionError") =>
          /\ pod_basis = <<>>
          /\ TF_ROM = NoModel
          /\ Len(snapshot_matrix) < Len(training_set)
          /\ Det(OperatorAt(model_TF, training_set[Len(snapshot_matrix) + 1])) = Zero
    /\ (pc = "mr_error" /\ err = "InversionError") =>
          /\ U_V = <<>>
          /\ U_W = <<>>
          /\ pod_rom_V = NoModel
          /\ pod_rom_W = NoModel
          /\ Len(solution_snapshots_W) < Len(training_set)
          /\ Len(solution_snapshots_V) <= Len(solution_snapshots_W) + 1
          /\ Det(OperatorAt(model_V, training_set[Len(solution_snapshots_W) + 1])) = Zero

\* C10 witness: TFROM was to solve two parameters, solved the first and
\* raised on the second.
C10_Witness ==
    /\ pc = "tf_error"
    /\ err = "InversionError"
    /\ Len(training_set) = 2
    /\ Len(snapshot_matrix) = 1

-----------------------------------------------------------------------------
(* Properties of the second notebook                                        *)

\* X is n x Len(mu) and its column i is w[i] times the reconstruction of the
\* ROM's solution at mu[i]
ColumnsMatch(X, rom, w, mu, n) ==
    /\ NRows(MatrixOf(X)) = n
    /\ NCols(MatrixOf(X)) = Len(mu)
    /\ \A i \in 1..Len(mu) :
          Col(MatrixOf(X), i) = Scal(w[i], Reconstruct(rom.RB, Solve(rom, mu[i]), n))

\* C4: the V and W that ProjectionMatrices returns are n x r, r the number of
\* interpolation points, column i of V being b[i] times the reconstructed
\* solution of pod_rom_V at mu[i] and column i of W being c[i] times the
\* reconstructed solution of pod_rom_W at mu[i].
C4_ColumnsAreScaledReconstructions ==
    pc = "pm_done" =>
        /\ ColumnsMatch(V, pod_rom_V, args.b, args.mu, Len(sys.A))
        /\ ColumnsMatch(W, pod_rom_W, args.c, args.mu, Len(sys.A))

\* every reduced solution the loop collected is finite
ReducedSolutionsFinite ==
    MatFinite(reduced_solution_V) /\ MatFinite(reduced_solution_W)

\* The statement of C4 where no reduced solve returned a non-finite vector.
PM_FiniteColumnsAreScaledReconstructions ==
    (pc = "pm_done" /\ ReducedSolutionsFinite) =>
        /\ ColumnsMatch(V, pod_rom_V, args.b, args.mu, Len(sys.A))
        /\ ColumnsMatch(W, pod_rom_W, args.c, args.mu, Len(sys.A))
        /\ V.type = (IF args.numpy THEN "ndarray" ELSE "VectorArray")
        /\ W.type = V.type

\* both reduced bases span the whole space (k = n) and no interpolation
\* point is an eigenvalue of A
FullBasesOffSpectrum ==
    /\ pc = "pm_done"
    /\ Len(pod_rom_V.RB) = Len(sys.A)
    /\ Len(pod_rom_W.RB) = Len(sys.A)
    /\ ~exact_raises(sys.A, args.mu)

\* C5: with k = n on both sides the built V equals exact's V_exact, column i
\* being b[i] (s_i I - A)^-1 B, and the built W equals W_exact, column i
\* being c[i] (conj(s_i) I - A^H)^-1 C^T.
C5_BuiltEqualsExact ==
    FullBasesOffSpectrum =>
        /\ MatrixOf(V) = exact_V(sys.A, sys.B, args.mu, args.b)
        /\ MatrixOf(W) = exact_W(sys.A, sys.C, args.mu, args.c)

\* The statement of C5 for the models whose adjoint right-hand side is the
\* plain transpose of C.
PM_BuiltEqualsExactForTransposedC ==
    (FullBasesOffSpectrum /\ model_W.rhs = Col(Transpose(sys.C), 1)) =>
        /\ MatrixOf(V) = exact_V(sys.A, sys.B, args.mu, args.b)
        /\ MatrixOf(W) = exact_W(sys.A, sys.C, args.mu, args.c)

\* C6: the pair Gram returns with biort = True satisfies W^T V = I_r.
C6_BiorthogonalPair ==
    (pc = "gram_done" /\ args.biort) =>
        MatMul(Transpose(MatrixOf(W)), MatrixOf(V)) = Eye(NCols(MatrixOf(V)))

\* C6 witness: Gram returned a biorthogonal pair of two columns for a W with
\* complex entries.
C6_Witness ==
    /\ pc = "gram_done"
    /\ args.biort
    /\ NCols(MatrixOf(V)) = 2
    /\ \E i \in 1..Len(args.W) : \E k \in 1..Len(args.W[i]) : ~IsReal(args.W[i][k])

\* |x| of a real number, the 1-norm of a real matrix and its reciprocal
\* condition number in that norm
RAbs(x) == Mk(Abs(x[1]), 0, x[3])
RECURSIVE RMaxSeq(_)
RMaxSeq(d) == IF Len(d) = 1 THEN d[1] ELSE RMax(d[1], RMaxSeq(Tail(d)))
Norm1(M) ==
    RMaxSeq([j \in 1..NCols(M) |-> SumSeq([i \in 1..NRows(M) |-> RAbs(M[i][j])])])
Rcond1(M) == CInv(CMul(Norm1(M), Norm1(Inverse(M))))
IsRealMatrix(M) == \A i \in 1..Len(M) : \A j \in 1..Len(M[i]) : IsReal(M[i][j])

\* a threshold for the reciprocal condition number of W^T V: 1/10
RcondThreshold == <<1, 0, 10>>

\* C7: Gram with biort = True returns no pair when the reciprocal condition
\* number of W_orth^T V_orth is below the threshold.
C7_IllConditionedPairingRejected ==
    ( /\ pc = "gram_done"
      /\ args.biort
      /\ IsRealMatrix(Pairing(W_orth, Transpose(Q_V))) )
    => ~RLt(Rcond1(Pairing(W_orth, Transpose(Q_V))), RcondThreshold)

\* the lengths of mu, b and c are not all equal
LengthsDiffer ==
    /\ args.call = "ProjectionMatrices"
    /\ ~(Len(args.mu) = Len(args.b) /\ Len(args.b) = Len(args.c))

\* C8 as stated: a ProjectionMatrices call with lengths that are not all
\* equal ends with the shape error (ValueError) and without V or W.
C8_MismatchIsShapeError ==
    (LengthsDiffer /\ pc \in {"pm_done", "pm_error"}) =>
        (pc = "pm_error" /\ err = "ValueError" /\ V = NoArray /\ W = NoArray)

\* C8 amended: such a call never returns V or W; it ends with the ValueError
\* of np.matmul once the loop over mu is through, unless a ROM solve of the
\* loop raised before.
C8_MismatchNeverReturns ==
    LengthsDiffer =>
        /\ pc # "pm_done"
        /\ V = NoArray
        /\ W = NoArray
        /\ pc = "pm_error" =>
              \/ err = "ValueError" /\ Len(reduced_solution_W) = Len(args.mu)
              \/ err = "InversionError" /\ Len(reduced_solution_W) < Len(args.mu)

\* C8 witness: b and c have the same length, one more than mu, and the call
\* ended with ValueError.
C8_Witness ==
    /\ LengthsDiffer
    /\ Len(args.b) = Len(args.c)
    /\ pc = "pm_error"
    /\ err = "ValueError"

-----------------------------------------------------------------------------
(* The comparison cells: Gram on V_exact, W_exact and on V, W               *)

\* the largest entry of the arrays the comparison starts from
MaxEntry == 2

\* M + eps*I for a VectorArray M: eps is added to the k-th entry of the k-th
\* vector
PlusEpsI(M, eps) ==
    [k \in 1..Len(M) |-> [i \in 1..Len(M[k]) |-> IF i = k THEN CAdd(M[k][i], eps) ELSE M[k][i]]]

\* the perturbations eps
Perturbations == { <<1, 0, 200>>, <<1, 0, 1000>> }

\* half of eps
Half(eps) == CMul(<<1, 0, 2>>, eps)

\* the arrays V_exact of the comparison: two vectors of dimension 2, and one
\* pair of dimension 3
StudyV ==
    { << <<Re(a), Re(0)>>, <<Re(b), Re(a)>> >> : a \in 1..MaxEntry, b \in 0..1 }
        \cup { << <<Re(1), Re(0), Re(0)>>, <<Re(0), Re(1), Re(0)>> >> }

\* the arrays W_exact of the comparison: the second vector lies eps/2 below
\* the line of the first one; and one pair of dimension 3 whose perturbed
\* array has a singular pairing with V
StudyW(eps) ==
    { << <<Re(c), Re(0)>>, <<Re(d), CNeg(Half(eps))>> >> : c \in 1..MaxEntry, d \in 0..1 }
        \cup { << <<Re(1), Re(0), Re(0)>>, <<Re(0), CNeg(eps), Re(1)>> >> }

InitStudy ==
    /\ notebook = "projection"
    /\ sys = NoSystem
    /\ rngState = 0
    /\ NothingCalled
    /\ NoEnergy
    /\ NoWorkers
    /\ returned = <<>>
    /\ \E eps \in Perturbations : \E Ve \in StudyV : \E We \in StudyW(eps) :
          study = [V_exact |-> Ve, W_exact |-> We, eps |-> eps,
                   V |-> PlusEpsI(Ve, eps), W |-> PlusEpsI(We, eps)]

\* the four Gram calls of the two cells, in the order the cells make them
GramCalls ==
    << [call |-> "Gram", V |-> study.V, W |-> study.W, biort |-> FALSE, numpy |-> FALSE],
       [call |-> "Gram", V |-> study.V, W |-> study.W, biort |-> TRUE, numpy |-> FALSE],
       [call |-> "Gram", V |-> study.V_exact, W |-> study.W_exact, biort |-> FALSE,
        numpy |-> FALSE],
       [call |-> "Gram", V |-> study.V_exact, W |-> study.W_exact, biort |-> TRUE,
        numpy |-> FALSE] >>

\* the next Gram call of the cells
CallGramOfCell ==
    /\ pc = "idle"
    /\ study # <<>>
    /\ Len(returned) < Len(GramCalls)
    /\ args' = GramCalls[Len(returned) + 1]
    /\ pc' = "gram_orth"
    /\ UNCHANGED <<envVars, energyVars, workerVars, studyVars, rngState, err, training_set,
                   tfVars, mrVars, pmVars, gramVars>>

\* [V_g, W_g] = Gram(...): the returned pair is bound to the cell's names
BindReturned ==
    /\ pc = "gram_done"
    /\ study # <<>>
    /\ returned' = Append(returned, [V |-> V, W |-> W])
    /\ pc' = "idle"
    /\ UNCHANGED <<envVars, energyVars, workerVars, study, rngState, err, args, training_set,
                   tfVars, mrVars, pmVars, gramVars>>

NextStudy == CallGramOfCell \/ GramOrth \/ GramReturn \/ BindReturned

SpecStudy == InitStudy /\ [][NextStudy]_vars

-----------------------------------------------------------------------------
(* Singular parameters                                                      *)

\* every vector in `solutions` was solved at a parameter that leaves the
\* operator of the model regular
SolvedOffSpectrum(model, params, solutions) ==
    \A i \in 1..Len(solutions) : ~IsSingular(OperatorAt(model, params[i]))

\* C11: no solve and no output evaluation at a parameter s with sI - A (or
\* sI_k - A_r) singular returns a value: no snapshot of the full-order loops,
\* no reduced solution of ProjectionMatrices and no ROM output comes from a
\* singular operator.
C11_SingularSolveFails ==
    /\ SolvedOffSpectrum(model_TF, training_set, snapshot_matrix)
    /\ SolvedOffSpectrum(model_V, training_set, solution_snapshots_V)
    /\ SolvedOffSpectrum(model_W, training_set, solution_snapshots_W)
    /\ args.call = "ProjectionMatrices" =>
          /\ SolvedOffSpectrum(pod_rom_V, args.mu, reduced_solution_V)
          /\ SolvedOffSpectrum(pod_rom_W, args.mu, reduced_solution_W)
    /\ (output.given /\ ~output.raised) => ~IsSingular(OperatorAt(TF_ROM, output.s))

-----------------------------------------------------------------------------
(* Truncation policies                                                      *)

\* the squared singular values of the snapshots TFROM collected
SnapshotSigmaSq ==
    LET X == Transpose(snapshot_matrix)
    IN  SigmaSq(CHOOSE U \in Unitaries(Len(sys.A)) : IsSvdU(U, X), X)

\* the number of modes the fixed-rank policy selects when no tolerance is given
FixedRankAlone == PodModes(SnapshotSigmaSq, args.rorder, Zero, Zero)

\* C12: one policy governs an extraction. A TFROM call that names a fixed
\* rank gets the basis the fixed-rank policy alone selects, whatever
\* tolerances travel with the call: a tolerance is never applied on top of it.
C12_OnePolicyPerExtraction ==
    (args.call = "TFROM" /\ pc \in {"tf_reduce", "tf_done"} /\ args.rorder # <<>>) =>
        Len(pod_basis) = FixedRankAlone

-----------------------------------------------------------------------------
(* The energy criterion                                                     *)

\* the sum of the first k squared singular values
PartialEnergy(k) == SumSeq(SubSeq(Squares(D), 1, k))
\* threshold times the sum of all squared singular values
RequiredEnergy == CMul(threshold, SumSeq(Squares(D)))

\* C13: for singular values with a positive total, the m the energy cell
\* selects is the smallest k whose first k squared singular values sum to at
\* least threshold times the total, and 1 <= m <= number of singular values.
C13_EnergyRankIsSmallest ==
    (m # 0 /\ SumSeq(Squares(D)) # Zero) =>
        /\ m \in 1..Len(D)
        /\ RLeq(RequiredEnergy, PartialEnergy(m))
        /\ \A k \in 1..(m - 1) : RLt(PartialEnergy(k), RequiredEnergy)

\* C13 witness: of three singular values the cell selects two, neither the
\* first mode alone nor all of them.
C13_Witness ==
    /\ Len(D) = 3
    /\ m = 2
    /\ threshold # One

-----------------------------------------------------------------------------
(* Shapes at construction                                                   *)

\* A is n x n, B is n x 1 and C is 1 x n
ShapesConsistent ==
    /\ NCols(sys.A) = NRows(sys.A)
    /\ Shape(sys.B) = <<NRows(sys.A), 1>>
    /\ Shape(sys.C) = <<1, NRows(sys.A)>>

\* C14: MatrixModel on matrices whose shapes are not mutually consistent
\* fails and leaves no model, in the first and in the second notebook.
C14_InconsistentShapesFail ==
    ~ShapesConsistent =>
        /\ pc \notin {"model", "models"}
        /\ model_TF = NoModel
        /\ model_V = NoModel
        /\ model_W = NoModel

\* The statement of C14 for everything but an output matrix of several rows in
\* the first notebook: the only inconsistent shape either MatrixModel accepts
\* is a C of several rows and n columns, and only the first notebook's does.
MM_OnlyMultiRowOutputAccepted ==
    (~ShapesConsistent /\ pc \in {"model", "models"}) =>
        /\ notebook = "transfer"
        /\ NCols(sys.A) = NRows(sys.A)
        /\ Shape(sys.B) = <<NRows(sys.A), 1>>
        /\ NCols(sys.C) = NRows(sys.A)
        /\ NRows(sys.C) > 1

-----------------------------------------------------------------------------
(* Concurrent workers against the sequential loop                           *)

\* every worker has written its slot
AllWritten == \A t \in DOMAIN worker : worker[t] = "written"

\* C15: whatever the interleaving, no slot is written twice, the slot of a
\* worker that has finished was written exactly once, and when all workers
\* have finished the slots hold what the sequential loop over the same
\* parameters collects.
C15_SlotsMatchSequentialLoop ==
    /\ \A t \in DOMAIN worker :
          writes[t[1]][t[2]] = (IF worker[t] = "written" THEN 1 ELSE 0)
    /\ (AllWritten /\ LoopThrough) =>
          \A side \in Sides : slots[side] = SequentialResult(side)

\* C15 witness: the workers and the loop of ProjectionMatrices have both
\* solved two interpolation points whose solutions differ.
C15_Witness ==
    /\ AllWritten
    /\ LoopThrough
    /\ Len(JobParams) = 2
    /\ slots["V"][1] # slots["V"][2]
    /\ args.call = "ProjectionMatrices"

-----------------------------------------------------------------------------
(* What the operations leave alone                                          *)

\* the full-order models and the system they were built from stay as they are
SystemKept ==
    /\ sys' = sys
    /\ model_TF' = model_TF
    /\ model_V' = model_V
    /\ model_W' = model_W
\* the reduced bases and the reduced systems stay as they are
ReducedKept ==
    /\ pod_basis' = pod_basis
    /\ TF_ROM' = TF_ROM
    /\ U_V' = U_V
    /\ U_W' = U_W
    /\ pod_rom_V' = pod_rom_V
    /\ pod_rom_W' = pod_rom_W

\* C16: a full-order solve (of TFROM's or MatrixReductor's loop), a reduced
\* solve, an output evaluation, the reconstruction and the build of V and W
\* leave the system and its models unchanged, the last four also the reduced
\* bases and ROMs, whether the sequence runs to its end or is abandoned on an
\* error; and a repeated TF_ROM.output(s) returns the value it returned before.
C16_OperationsLeaveObjectsAlone ==
    [][ /\ (pc = "tf_solve" /\ pc' \in {"tf_solve", "tf_error"}) => SystemKept
        /\ (pc = "mr_solve" /\ pc' \in {"mr_solve", "mr_error"}) => SystemKept
        /\ (pc = "tf_done" /\ pc' = "tf_done") => (SystemKept /\ ReducedKept)
        /\ pc = "pm_solve" => (SystemKept /\ ReducedKept)
        /\ ( /\ pc = "tf_done"
             /\ pc' = "tf_done"
             /\ output.given
             /\ ~output.raised
             /\ ~output'.raised
             /\ output'.s = output.s )
           => output'.value = output.value
      ]_vars

\* C16 witness: ProjectionMatrices was abandoned on a failing reduced solve
\* after at least one reduced solve had been done, the ROMs still in place.
C16_Witness ==
    /\ pc = "pm_error"
    /\ err = "InversionError"
    /\ Len(reduced_solution_V) >= 1
    /\ pod_rom_V # NoModel

-----------------------------------------------------------------------------
(* Orthonormalization twice                                                 *)

\* the vectors of Q are orthonormal in the inner product gram_schmidt uses
Orthonormal(Q) ==
    \A i, j \in 1..Len(Q) : Inner(Q[i], Q[j]) = (IF i = j THEN One ELSE Zero)

\* Gram is running on the arrays an earlier Gram call returned
SecondPass == pc = "gram_return" /\ V.type = "VectorArray"

\* C17: gram_schmidt returns an array of orthonormal vectors as it is, same
\* vectors, same order, same count; so the orthonormalization of what an
\* orthonormalization returned is that array again.
C17_OrthonormalizeIdempotent ==
    /\ (pc = "gram_return" /\ Orthonormal(args.V)) => Q_V = args.V
    /\ (pc = "gram_return" /\ Orthonormal(args.W)) => Q_W = args.W
    /\ SecondPass => (Q_V = args.V /\ Q_W = args.W)

\* C17 witness: the second pass runs on two vectors that the first pass had
\* to change.
C17_Witness ==
    /\ SecondPass
    /\ Len(Q_V) = 2
    /\ args.V \notin GramArrays

-----------------------------------------------------------------------------
(* Sensitivity of Gram to a perturbation eps*I                              *)

\* np.linalg.norm(X, np.inf) of a real matrix: the largest absolute row sum
NormInf(X) == Norm1(Transpose(X))

\* error(V_exact, W_exact, V, W, np.inf), for one of the two arrays: both are
\* taken as numpy arrays and the norm of the difference is printed
Error(X_exact, X) == NormInf(MatSub(X_exact.data, X.data))

\* the calls of the comparison cells have all returned
Compared == Len(returned) = Len(GramCalls)

\* pod_error_g and pod_error_gbi of the cells, for V and for W
pod_error_g_V == Error(returned[3].V, returned[1].V)
pod_error_g_W == Error(returned[3].W, returned[1].W)
pod_error_gbi_V == Error(returned[4].V, returned[2].V)
pod_error_gbi_W == Error(returned[4].W, returned[2].W)

\* two orders of magnitude above eps
FarAbove(x, eps) == RLeq(CMul(Re(100), eps), x)

-----------------------------------------------------------------------------
(* Order of the stages of the offline build                                 *)

\* one step of TFROM keeps the order sampling, solves, pod, reduce
TFROMInOrder ==
    /\ (pc = "tf_sample" /\ pc' = "tf_solve") =>
            /\ Len(training_set') = args.snap
            /\ snapshot_matrix' = <<>>
    /\ (snapshot_matrix' # snapshot_matrix /\ pc' # "tf_sample") =>
            /\ pc = "tf_solve"
            /\ Len(training_set) = args.snap
            /\ Len(snapshot_matrix') = Len(snapshot_matrix) + 1
            /\ pod_basis = <<>>
            /\ TF_ROM = NoModel
    /\ pc' = "tf_reduce" =>
            /\ pc = "tf_solve"
            /\ Len(snapshot_matrix) = args.snap
            /\ TF_ROM' = NoModel
    /\ (TF_ROM' # TF_ROM /\ TF_ROM' # NoModel) =>
            /\ pc = "tf_reduce"
            /\ TF_ROM' = Reduce(model_TF, pod_basis)
            /\ UNCHANGED <<snapshot_matrix, pod_basis>>

\* a step of TFROM that raises leaves the stages after it undone and returns
\* no reduced model; the only step after it is a new call by the caller,
\* which starts from nothing
TFROMStopsAtError ==
    /\ (pc # "tf_error" /\ pc' = "tf_error") =>
            /\ UNCHANGED <<snapshot_matrix, pod_basis, TF_ROM>>
            /\ pod_basis = <<>>
            /\ TF_ROM = NoModel
            /\ runs'[Len(runs')].TF_ROM = NoModel
    /\ pc = "tf_error" =>
            \/ UNCHANGED tfVars
            \/ /\ pc' = "tf_sample"
               /\ snapshot_matrix' = <<>>
               /\ pod_basis' = <<>>
               /\ TF_ROM' = NoModel

\* one step of MatrixReductor keeps the order solves, svd, rank checks and
\* reduce, and a step that raises returns no reduced model
MatrixReductorInOrder ==
    /\ (solution_snapshots_V' # solution_snapshots_V
            \/ solution_snapshots_W' # solution_snapshots_W) =>
            /\ pc = "mr_solve"
            /\ U_V = <<>>
            /\ U_W = <<>>
            /\ pod_rom_V = NoModel
    /\ pc' = "mr_check" =>
            /\ pc = "mr_solve"
            /\ Len(solution_snapshots_V) = Len(training_set)
            /\ Len(solution_snapshots_W) = Len(training_set)
    /\ (pod_rom_V' # pod_rom_V \/ pod_rom_W' # pod_rom_W) =>
            /\ pc = "mr_check"
            /\ pod_rom_V' = Reduce(model_V, FirstColumns(U_V, args.reduced_order_V))
            /\ pod_rom_W' = Reduce(model_W, FirstColumns(U_W, args.reduced_order_W))
            /\ UNCHANGED <<solution_snapshots_V, solution_snapshots_W, U_V, U_W>>
    /\ pc' = "mr_error" =>
            /\ pod_rom_V' = NoModel
            /\ pod_rom_W' = NoModel
            /\ UNCHANGED <<solution_snapshots_V, solution_snapshots_W, U_V, U_W>>
    /\ pc = "mr_error" => UNCHANGED mrVars

\* C19: the offline build runs sampling, full-order solves, basis extraction
\* and Galerkin reduction in this order: extraction starts only when a
\* snapshot has been appended for every one of the `count` parameters,
\* reduction starts only from the extracted basis, and once a stage raises
\* no later stage runs and no reduced model is returned.
C19_StagesInOrder ==
    [][TFROMInOrder /\ TFROMStopsAtError /\ MatrixReductorInOrder]_vars

\* C19 witness: pod raised after all of at least two snapshots were
\* appended, and the call has returned no reduced model.
C19_Witness ==
    /\ pc = "tf_error"
    /\ err \in {"AssertionError", "ValueError"}
    /\ args.snap >= 2
    /\ Len(snapshot_matrix) = args.snap
    /\ pod_basis = <<>>
    /\ TF_ROM = NoModel

-----------------------------------------------------------------------------
(* One system in two representations                                        *)

\* C20: MatrixModel builds the same primal and adjoint model whether the
\* matrices are arrays or operators, and the right-hand side of the adjoint
\* model is the plain transpose of C, also for a complex C.
C20_SameModelsForBothKinds ==
    pc = "models" =>
        /\ model_W.rhs = Col(Transpose(sys.C), 1)
        /\ \A kind \in Kinds :
              /\ model_V = MatrixModel_V(sys.A, sys.B, sys.C)
              /\ model_W = MatrixModel_W(sys.A, sys.B, sys.C, kind)

-----------------------------------------------------------------------------
(* What the biort flag changes                                              *)

\* a matrix in the representation the numpy flag of the call asks for
AsAsked(M) == IF args.numpy THEN AsArray(M) ELSE AsVectorArray(Transpose(M))

\* the arguments of the call, orthonormalized on their own, as matrices
OrthOfV == Transpose(gram_schmidt(args.V))
OrthOfW == Transpose(gram_schmidt(args.W))

\* C21: whatever the biort flag, the W that Gram returns is the W of the
\* call orthonormalized on its own, so the W of biort = True equals the W of
\* biort = False for the same inputs; V is the orthonormalized V without
\* the flag and that V times M = (W_orth^T V_orth)^-1 with it.
C21_BiortChangesOnlyV ==
    pc = "gram_done" =>
        /\ W = AsAsked(OrthOfW)
        /\ V = AsAsked(IF args.biort
                       THEN MatMul(OrthOfV, Inverse(Pairing(OrthOfW, OrthOfV)))
                       ELSE OrthOfV)

\* C21 witness: a call with biort = True has returned a V that is not the
\* orthonormalized V, next to a W of two vectors that is not symmetric.
C21_Witness ==
    /\ pc = "gram_done"
    /\ args.biort
    /\ V # AsAsked(OrthOfV)
    /\ Len(args.W) = 2
    /\ OrthOfW # Transpose(OrthOfW)

-----------------------------------------------------------------------------
(* Both sides of a loop follow the same parameters                          *)

\* snapshot i of `snapshots` is the solve of `model` at parameter i
SolvedInOrder(model, params, snapshots) ==
    /\ Len(snapshots) <= Len(params)
    /\ \A i \in 1..Len(snapshots) : snapshots[i] = Solve(model, params[i])

\* the W side of a loop body has run as often as the V side, or the V side
\* once more (between the two appends of one turn)
InStep(snapsV, snapsW) == Len(snapsW) <= Len(snapsV) /\ Len(snapsV) <= Len(snapsW) + 1

\* the returned matrix is R @ diag(weights), where column i of R is the
\* reconstruction of the solve of `rom` at mu[i]
ColumnsFollowMu(X, rom, weights) ==
    MatrixOf(X) =
        MatMul(Transpose([i \in 1..Len(args.mu) |->
                             Reconstruct(rom.RB, Solve(rom, args.mu[i]), Len(sys.A))]),
               Diag(weights))

\* C22: in MatrixReductor snapshot i of the primal and of the adjoint side is
\* the solve at training parameter i, the two collections have equal length
\* after every turn of the loop (the V side is one ahead only between the
\* two appends of a turn), and in ProjectionMatrices solution i of both
\* sides and column i of V and of W belong to mu[i].
C22_SidesFollowSameParameters ==
    /\ InStep(solution_snapshots_V, solution_snapshots_W)
    /\ SolvedInOrder(model_V, training_set, solution_snapshots_V)
    /\ SolvedInOrder(model_W, training_set, solution_snapshots_W)
    /\ pc \in {"mr_check", "mr_done"} =>
            /\ Len(solution_snapshots_V) = Len(training_set)
            /\ Len(solution_snapshots_W) = Len(training_set)
    /\ InStep(reduced_solution_V, reduced_solution_W)
    /\ pc \in {"pm_solve", "pm_error", "pm_done"} =>
            /\ SolvedInOrder(pod_rom_V, args.mu, reduced_solution_V)
            /\ SolvedInOrder(pod_rom_W, args.mu, reduced_solution_W)
    /\ pc = "pm_done" =>
            /\ Len(reduced_solution_V) = Len(args.mu)
            /\ Len(reduced_solution_W) = Len(args.mu)
            /\ ColumnsFollowMu(V, pod_rom_V, args.b)
            /\ ColumnsFollowMu(W, pod_rom_W, args.c)

\* C22 witness: ProjectionMatrices has returned for two distinct
\* interpolation points, after a MatrixReductor loop over two distinct
\* training parameters.
C22_Witness ==
    /\ pc = "pm_done"
    /\ Len(args.mu) = 2
    /\ args.mu[1] # args.mu[2]
    /\ Len(training_set) = 2
    /\ training_set[1] # training_set[2]
    /\ Len(solution_snapshots_W) = 2

-----------------------------------------------------------------------------
(* The basis handed to the Galerkin reduction                               *)

\* vector j of the basis is column j of U, for every vector of the basis
LeadingColumnsOf(RB, U) == \A j \in 1..Len(RB) : RB[j] = Col(U, j)

\* the basis has at most min(n, number of snapshots) vectors
WithinRank(RB, snapshots) == Len(RB) <= Len(sys.A) /\ Len(RB) <= Len(snapshots)

\* C23: every basis a reduced model was built on is made of the first k
\* columns of a factor U of the singular value decomposition of the
\* snapshot matrix, in the order of the decomposition, with
\* k <= min(n, number of snapshots).
C23_BasisIsLeadingColumns ==
    /\ TF_ROM # NoModel =>
            /\ WithinRank(TF_ROM.RB, snapshot_matrix)
            /\ \E U \in Unitaries(Len(sys.A)) :
                  /\ IsSvdU(U, Transpose(snapshot_matrix))
                  /\ LeadingColumnsOf(TF_ROM.RB, U)
    /\ pod_rom_V # NoModel =>
            /\ WithinRank(pod_rom_V.RB, solution_snapshots_V)
            /\ IsSvdU(U_V, Transpose(solution_snapshots_V))
            /\ LeadingColumnsOf(pod_rom_V.RB, U_V)
    /\ pod_rom_W # NoModel =>
            /\ WithinRank(pod_rom_W.RB, solution_snapshots_W)
            /\ IsSvdU(U_W, Transpose(solution_snapshots_W))
            /\ LeadingColumnsOf(pod_rom_W.RB, U_W)

\* C23 witness: MatrixReductor has built a reduced model on one column of a
\* factor U with two columns that differ, from two snapshots.
C23_Witness ==
    /\ pc = "mr_done"
    /\ Len(pod_rom_V.RB) = 1
    /\ Len(solution_snapshots_V) = 2
    /\ NCols(U_V) = 2
    /\ Col(U_V, 1) # Col(U_V, 2)

-----------------------------------------------------------------------------
(* A domain tuple of the wrong length                                       *)

\* TFROM is about to sample and rng has neither 2 nor 4 entries
BadDomain == pc = "tf_sample" /\ Len(args.rng) \notin {2, 4}

\* C24: with a domain tuple of neither 2 nor 4 entries TFROM raises before
\* it draws a parameter or solves the full-order model, and returns no
\* reduced model.
C24_BadDomainFailsBeforeSolve ==
    [][BadDomain =>
          /\ pc' = "tf_error"
          /\ err' # ""
          /\ rngState' = rngState
          /\ training_set' = <<>>
          /\ snapshot_matrix' = <<>>
          /\ pod_basis' = <<>>
          /\ TF_ROM' = NoModel
          /\ runs'[Len(runs')] = RunRecord(<<>>, <<>>, NoModel, err')]_vars

\* C24 witness: a call with a domain tuple of three entries has raised
\* UnboundLocalError without a snapshot and without a reduced model.
C24_Witness ==
    /\ pc = "tf_error"
    /\ args.call = "TFROM"
    /\ Len(args.rng) = 3
    /\ err = "UnboundLocalError"
    /\ snapshot_matrix = <<>>
    /\ TF_ROM = NoModel

=============================================================================
